---- MODULE Spec2Model ----
(***************************************************************************)
(* Model of the product-page scanner (find_page.py): the scan pass engine, *)
(* the existence oracle, the per-domain discovery store and the two        *)
(* workflows (main, scan_for_slack).                                       *)
(*                                                                         *)
(* Text (URLs, names, file lines) is modelled as sequences of one-char     *)
(* strings, so formatting and parsing are computed, not assumed.           *)
(***************************************************************************)
EXTENDS Integers, Sequences, FiniteSets, TLC

\* ------------------------------------------------------------------------
\* Program constants
\* ------------------------------------------------------------------------
STOP_AFTER_CONSECUTIVE_MISSES == 100

STOP_AFTER_CONSECUTIVE_HITS == 200

\* html[:20000]
SAMPLE_LEN == 20000

\* len(sample.strip()) < 200
MIN_BODY_LEN == 200

\* ------------------------------------------------------------------------
\* Bounds of the model
\* ------------------------------------------------------------------------
\* fetches one pass may make before the model stops following it
MaxAttempts == 250

\* the highest id with a product page of its own
MaxLiveId == 150

\* sessions run one after the other
MaxSessions == 2

\* the longest record list given to save_products_to_file on its own
MaxRecords == 2

\* the highest id substituted into a template to resolve it again
MaxSubstId == 12

\* messages that start a thread in one run of the chat bot
MaxThreads == 2

\* a small miss threshold passed to scan_pass besides the default
SmallThreshold == 3

\* ------------------------------------------------------------------------
\* Characters and strings
\* ------------------------------------------------------------------------
Digits == <<"0", "1", "2", "3", "4", "5", "6", "7", "8", "9">>

UpperCase == <<"A", "B", "C", "D", "E", "F", "G", "H", "I", "J", "K", "L", "M",
               "N", "O", "P", "Q", "R", "S", "T", "U", "V", "W", "X", "Y", "Z">>

LowerCase == <<"a", "b", "c", "d", "e", "f", "g", "h", "i", "j", "k", "l", "m",
               "n", "o", "p", "q", "r", "s", "t", "u", "v", "w", "x", "y", "z">>

DigitSet == {Digits[i] : i \in 1..10}

IsDigit(c) == c \in DigitSet

DigitVal(c) == (CHOOSE i \in 1..10 : Digits[i] = c) - 1

\* str.lower() on one character
UpperSet == {UpperCase[i] : i \in 1..26}

LowerChar(c) ==
    IF c \in UpperSet
    THEN LowerCase[CHOOSE i \in 1..26 : UpperCase[i] = c]
    ELSE c

\* str.lower()
Lower(s) == [i \in 1..Len(s) |-> LowerChar(s[i])]

\* whitespace as \s and str.strip() see it
IsSpace(c) == c \in {" ", "\n", "\t"}

\* str(n) for n >= 0
RECURSIVE IntToStr(_)
IntToStr(n) ==
    IF n < 10 THEN <<Digits[n + 1]>>
    ELSE IntToStr(n \div 10) \o <<Digits[(n % 10) + 1]>>

\* int(s) for a nonempty digit string
RECURSIVE StrToInt(_)
StrToInt(s) ==
    IF Len(s) = 0 THEN 0
    ELSE 10 * StrToInt(SubSeq(s, 1, Len(s) - 1)) + DigitVal(s[Len(s)])

StartsWith(s, p) == Len(s) >= Len(p) /\ SubSeq(s, 1, Len(p)) = p

EndsWith(s, p) == Len(s) >= Len(p) /\ SubSeq(s, Len(s) - Len(p) + 1, Len(s)) = p

\* s[i:] (1-based i)
Drop(s, i) == SubSeq(s, i, Len(s))

\* str.find: 1-based index of the first occurrence of sub in s, 0 when absent
Find(s, sub) ==
    LET hits == {i \in 1..(Len(s) - Len(sub) + 1) : SubSeq(s, i, i + Len(sub) - 1) = sub}
    IN IF hits = {} THEN 0 ELSE CHOOSE i \in hits : \A j \in hits : i <= j

Contains(s, sub) == Find(s, sub) > 0

\* index of the first character of s that is in set cs, Len(s)+1 when none
FirstOf(s, cs) ==
    LET hits == {i \in 1..Len(s) : s[i] \in cs}
    IN IF hits = {} THEN Len(s) + 1 ELSE CHOOSE i \in hits : \A j \in hits : i <= j

\* str.lstrip() / str.rstrip() / str.strip()
LStrip(s) ==
    LET keep == {i \in 1..Len(s) : ~IsSpace(s[i])}
    IN IF keep = {} THEN <<>>
       ELSE SubSeq(s, CHOOSE i \in keep : \A j \in keep : i <= j, Len(s))

RStrip(s) ==
    LET keep == {i \in 1..Len(s) : ~IsSpace(s[i])}
    IN IF keep = {} THEN <<>>
       ELSE SubSeq(s, 1, CHOOSE i \in keep : \A j \in keep : i >= j)

Strip(s) == LStrip(RStrip(s))

\* str.rstrip("/")
RStripSlash(s) ==
    LET keep == {i \in 1..Len(s) : s[i] # "/"}
    IN IF keep = {} THEN <<>>
       ELSE SubSeq(s, 1, CHOOSE i \in keep : \A j \in keep : i >= j)

\* length of the run of digits of s that starts at index i
RECURSIVE DigitRun(_, _)
DigitRun(s, i) ==
    IF i <= Len(s) /\ IsDigit(s[i]) THEN 1 + DigitRun(s, i + 1) ELSE 0

\* ------------------------------------------------------------------------
\* URL utils
\* ------------------------------------------------------------------------
HTTP == <<"h", "t", "t", "p">>

SCHEME_HTTP == <<"h", "t", "t", "p", ":", "/", "/">>

SCHEME_HTTPS == <<"h", "t", "t", "p", "s", ":", "/", "/">>

ensure_scheme(url) ==
    LET u == Strip(url)
    IN IF StartsWith(Lower(u), SCHEME_HTTP) \/ StartsWith(Lower(u), SCHEME_HTTPS)
       THEN u
       ELSE SCHEME_HTTPS \o u

\* urllib.parse.urlparse on a URL that carries a scheme: the scheme is
\* lowercased, the netloc runs up to the first of / ? #, the fragment is cut
\* at the first #, the query at the first ? before it.
\* path and query of what precedes the fragment
ParsePathQuery(scheme, netloc, noFrag, fragment) ==
    [scheme   |-> scheme,
     netloc   |-> netloc,
     path     |-> SubSeq(noFrag, 1, FirstOf(noFrag, {"?"}) - 1),
     query    |-> Drop(noFrag, FirstOf(noFrag, {"?"}) + 1),
     fragment |-> fragment]

\* r3 is what follows the netloc
ParseFragment(scheme, netloc, r3) ==
    ParsePathQuery(scheme, netloc, SubSeq(r3, 1, FirstOf(r3, {"#"}) - 1),
                   Drop(r3, FirstOf(r3, {"#"}) + 1))

\* rest is what follows "scheme:"
ParseNetloc(scheme, rest) ==
    IF StartsWith(rest, <<"/", "/">>)
    THEN ParseFragment(scheme,
                       SubSeq(rest, 3, 2 + FirstOf(Drop(rest, 3), {"/", "?", "#"}) - 1),
                       Drop(rest, 2 + FirstOf(Drop(rest, 3), {"/", "?", "#"})))
    ELSE ParseFragment(scheme, <<>>, rest)

urlparse(u) ==
    ParseNetloc(Lower(SubSeq(u, 1, Find(u, <<":">>) - 1)), Drop(u, Find(u, <<":">>) + 1))

\* urlunparse((scheme, netloc, path, "", "", ""))
urlunparse(scheme, netloc, path) ==
    scheme \o <<":", "/", "/">> \o netloc \o path

\* (mutant) the path is kept
HomeOf_KeepsPath(p) == urlunparse(p.scheme, p.netloc, p.path)

HomeOf(p) == urlunparse(p.scheme, p.netloc, <<>>)

normalize_home(url) == HomeOf(urlparse(ensure_scheme(url)))

\* str.replace(old, "") : every occurrence, left to right
RECURSIVE RemoveAll(_, _)
RemoveAll(s, old) ==
    LET i == Find(s, old)
    IN IF i = 0 THEN s
       ELSE SubSeq(s, 1, i - 1) \o RemoveAll(Drop(s, i + Len(old)), old)

get_domain_from_url(url) ==
    RemoveAll(urlparse(ensure_scheme(url)).netloc, <<"w", "w", "w", ".">>)

WithoutQueryFragment(p) == urlunparse(p.scheme, p.netloc, p.path)

strip_query_fragment(url) == WithoutQueryFragment(urlparse(ensure_scheme(url)))

home_like_paths ==
    { <<"/", "i", "n", "d", "e", "x", ".", "h", "t", "m", "l">>,
      <<"/", "i", "n", "d", "e", "x", ".", "h", "t", "m">>,
      <<"/", "i", "n", "d", "e", "x", ".", "p", "h", "p">>,
      <<"/", "i", "n", "d", "e", "x", ".", "a", "s", "p">>,
      <<"/", "i", "n", "d", "e", "x", ".", "a", "s", "p", "x">>,
      <<"/", "d", "e", "f", "a", "u", "l", "t", ".", "a", "s", "p">>,
      <<"/", "d", "e", "f", "a", "u", "l", "t", ".", "a", "s", "p", "x">>,
      <<"/", "m", "a", "i", "n">>,
      <<"/", "m", "a", "i", "n", "/">>,
      <<"/", "m", "a", "i", "n", "/", "i", "n", "d", "e", "x", ".", "h", "t", "m", "l">>,
      <<"/", "m", "a", "i", "n", "/", "i", "n", "d", "e", "x", ".", "h", "t", "m">>,
      <<"/", "m", "a", "i", "n", "/", "i", "n", "d", "e", "x", ".", "p", "h", "p">> }

\* (mutant) only "/" counts as home
IsHomePath_RootOnly(path) == path = <<"/">>

IsHomePath(path) == path \in {<<>>, <<"/">>} \/ path \in home_like_paths

is_homepage(url) == IsHomePath(Strip(Lower(urlparse(ensure_scheme(url)).path)))

Comparable(p) ==
    Lower(p.scheme) \o <<":", "/", "/">> \o Lower(p.netloc) \o RStripSlash(p.path)

normalize_for_compare(url) == Comparable(urlparse(ensure_scheme(url)))

\* ------------------------------------------------------------------------
\* Regular-expression helpers
\* ------------------------------------------------------------------------
\* s has lit at index i
At(s, i, lit) == i >= 1 /\ i + Len(lit) - 1 <= Len(s) /\ SubSeq(s, i, i + Len(lit) - 1) = lit

Least(S) == CHOOSE i \in S : \A j \in S : i <= j

Greatest(S) == CHOOSE i \in S : \A j \in S : i >= j

\* re.search(lit + r"(\d+)", s): the digits of the first match, <<>> when none
SearchLitDigits(s, lit) ==
    LET hits == {i \in 1..Len(s) : At(s, i, lit) /\ DigitRun(s, i + Len(lit)) > 0}
    IN IF hits = {} THEN <<>>
       ELSE LET i == Least(hits)
            IN SubSeq(s, i + Len(lit), i + Len(lit) + DigitRun(s, i + Len(lit)) - 1)

SURL_P == <<"/", "s", "u", "r", "l", "/", "p", "/">>

PRODUCT_DIR == <<"/", "p", "r", "o", "d", "u", "c", "t", "/">>

CATEGORY_DIR == <<"/", "c", "a", "t", "e", "g", "o", "r", "y", "/">>

DETAIL_HTML == <<"/", "p", "r", "o", "d", "u", "c", "t", "/", "d", "e", "t", "a", "i", "l", ".", "h", "t", "m", "l">>

PRODUCT_END == <<"/", "p", "r", "o", "d", "u", "c", "t">>

PRODUCT_NO == <<"p", "r", "o", "d", "u", "c", "t", "_", "n", "o">>

IDX == <<"i", "d", "x">>

\* re.search(r"/product/.+/(\d+)/category/", path): the digits of the match
\* (the greedy .+ takes the last "/digits/category/"), <<>> when none
SearchCategoryId(path) ==
    LET starts == {i \in 1..Len(path) : At(path, i, PRODUCT_DIR)}
        ends(i) == {j \in (i + Len(PRODUCT_DIR) + 1)..Len(path) :
                      /\ path[j] = "/"
                      /\ DigitRun(path, j + 1) > 0
                      /\ At(path, j + 1 + DigitRun(path, j + 1), CATEGORY_DIR)}
        good == {i \in starts : ends(i) # {}}
    IN IF good = {} THEN <<>>
       ELSE LET j == Greatest(ends(Least(good)))
            IN SubSeq(path, j + 1, j + DigitRun(path, j + 1))

\* re.search(r"(?:^|&)" + key + r"=\d+(?:&|$)", query, re.IGNORECASE)
SearchQueryDigits(query, key) ==
    \E i \in 1..Len(query) :
        /\ i = 1 \/ query[i - 1] = "&"
        /\ At(Lower(query), i, key \o <<"=">>)
        /\ LET d == i + Len(key) + 1
               n == DigitRun(query, d)
           IN n > 0 /\ (d + n > Len(query) \/ query[d + n] = "&")

\* query.split("&")
RECURSIVE SplitAmp(_)
SplitAmp(query) ==
    LET a == FirstOf(query, {"&"})
    IN IF a > Len(query) THEN <<query>>
       ELSE <<SubSeq(query, 1, a - 1)>> \o SplitAmp(Drop(query, a + 1))

\* parse_qs(query)[key][0] as an optional text: the value of the first
\* "key=value" pair with that exact key and a nonblank value
QueryValue(query, key) ==
    LET pairs == SplitAmp(query)
        hits  == {k \in 1..Len(pairs) :
                     /\ StartsWith(pairs[k], key \o <<"=">>)
                     /\ Len(pairs[k]) > Len(key) + 1}
    IN IF hits = {} THEN <<>>
       ELSE <<Drop(pairs[Least(hits)], Len(key) + 2)>>

\* str.isdigit()
IsDigits(v) == Len(v) > 0 /\ \A i \in 1..Len(v) : IsDigit(v[i])

\* ------------------------------------------------------------------------
\* Product ID extraction
\* ------------------------------------------------------------------------
\* an optional integer is <<>> (None) or <<n>>
None == <<>>

\* the pattern cascade on path = urlparse(clean).path, query = urlparse(raw).query
ExtractIdFrom(path, query) ==
    IF SearchLitDigits(path, SURL_P) # <<>>
    THEN <<StrToInt(SearchLitDigits(path, SURL_P))>>
    ELSE IF SearchCategoryId(path) # <<>>
    THEN <<StrToInt(SearchCategoryId(path))>>
    ELSE IF EndsWith(Lower(RStripSlash(path)), DETAIL_HTML)
               /\ QueryValue(query, PRODUCT_NO) # <<>>
               /\ IsDigits(QueryValue(query, PRODUCT_NO)[1])
    THEN <<StrToInt(QueryValue(query, PRODUCT_NO)[1])>>
    ELSE IF EndsWith(Lower(RStripSlash(path)), PRODUCT_END)
               /\ QueryValue(query, IDX) # <<>>
               /\ IsDigits(QueryValue(query, IDX)[1])
    THEN <<StrToInt(QueryValue(query, IDX)[1])>>
    ELSE None

extract_product_id_from_input_url(product_url) ==
    ExtractIdFrom(urlparse(strip_query_fragment(ensure_scheme(product_url))).path,
                  urlparse(ensure_scheme(product_url)).query)

\* ------------------------------------------------------------------------
\* Platform detection (+ scan template policy)
\* ------------------------------------------------------------------------
PLACEHOLDER == <<"{", "i", "d", "}">>

CAFE24_TEMPLATE(base) == base \o SURL_P \o PLACEHOLDER

IMWEB_TEMPLATE(base) ==
    base \o <<"/", "P", "r", "o", "d", "u", "c", "t", "/", "?", "i", "d", "x", "=">> \o PLACEHOLDER

NoPlatform == [platform |-> "none", template |-> <<>>]

\* the pattern cascade on path = urlparse(clean).path, query = urlparse(raw).query
\* and base = normalize_home(clean)
DetectFrom(path, query, base) ==
    IF Contains(path, SURL_P) /\ SearchLitDigits(path, SURL_P) # <<>>
    THEN [platform |-> "cafe24", template |-> CAFE24_TEMPLATE(base)]
    ELSE IF StartsWith(path, PRODUCT_DIR) /\ SearchCategoryId(path) # <<>>
    THEN [platform |-> "cafe24", template |-> CAFE24_TEMPLATE(base)]
    ELSE IF EndsWith(Lower(RStripSlash(path)), DETAIL_HTML)
               /\ SearchQueryDigits(query, PRODUCT_NO)
    THEN [platform |-> "cafe24", template |-> CAFE24_TEMPLATE(base)]
    ELSE IF EndsWith(Lower(RStripSlash(path)), PRODUCT_END)
               /\ SearchQueryDigits(query, IDX)
    THEN [platform |-> "imweb", template |-> IMWEB_TEMPLATE(base)]
    ELSE NoPlatform

detect_platform_from_product_url(product_url) ==
    DetectFrom(urlparse(strip_query_fragment(ensure_scheme(product_url))).path,
               urlparse(ensure_scheme(product_url)).query,
               normalize_home(strip_query_fragment(ensure_scheme(product_url))))

\* ------------------------------------------------------------------------
\* Page bodies
\* ------------------------------------------------------------------------
\* A body (r.text) is `lead` whitespace characters followed by `text`
\* characters of markup that neither starts nor ends with whitespace.  kw
\* says that the markup starts with one of NOT_FOUND_KEYWORDS ("404");
\* og, tw and title are the contents of the og:title meta tag, the
\* twitter:title meta tag and the <title> element (optional texts).
\* an optional text is <<>> when absent and <<text>> when present
NoTag == <<>>

Tag(text) == <<text>>

KEYWORD_404 == <<"4", "0", "4">>

\* the marker extract_product_name returns when no pattern matches (the
\* source's text is Korean; the shape "(words with spaces)" is kept)
EXTRACTION_FAILED == <<"(", "n", "o", " ", "n", "a", "m", "e", ")">>

Min(a, b) == IF a <= b THEN a ELSE b

Max(a, b) == IF a >= b THEN a ELSE b

\* re.sub(r"\s+", " ", text).strip()
RECURSIVE CollapseSpaces(_)
CollapseSpaces(s) ==
    IF Len(s) = 0 THEN <<>>
    ELSE IF IsSpace(s[1])
         THEN <<" ">> \o CollapseSpaces(LStrip(s))
         ELSE <<s[1]>> \o CollapseSpaces(Tail(s))

clean_text(text) == Strip(CollapseSpaces(text))

\* (mutant) the og:title pattern is active and comes first
extract_product_name_OgFirst(html) ==
    IF html.og # NoTag THEN clean_text(html.og[1])
    ELSE IF html.title # NoTag THEN clean_text(html.title[1]) ELSE EXTRACTION_FAILED

\* only the <title> pattern is active in the source
extract_product_name(html) ==
    IF html.title # NoTag THEN clean_text(html.title[1]) ELSE EXTRACTION_FAILED

\* "kw in sample" for some kw of NOT_FOUND_KEYWORDS, sample = html[:20000].lower()
KeywordInSample(html) == html.kw /\ html.lead + Len(KEYWORD_404) <= SAMPLE_LEN

\* len(sample.strip())
SampleStrippedLen(html) == Max(0, Min(html.lead + html.text, SAMPLE_LEN) - html.lead)

looks_not_found(status_code, requested_url, final_url, html) ==
    IF status_code # 200 THEN TRUE
    ELSE IF normalize_for_compare(requested_url) # normalize_for_compare(final_url)
            /\ is_homepage(final_url) THEN TRUE
    ELSE IF KeywordInSample(html) THEN TRUE
    ELSE IF SampleStrippedLen(html) < MIN_BODY_LEN THEN TRUE
    ELSE FALSE

\* ------------------------------------------------------------------------
\* File I/O for domain-based tracking
\* ------------------------------------------------------------------------
\* A file is <<text>>, text its sequence of characters; NoFile when the path
\* does not exist.
NoFile == <<>>

FileOf(text) == <<text>>

\* f.readlines(): the text cut after every "\n" (line ends kept)
RECURSIVE readlines(_)
readlines(text) ==
    IF Len(text) = 0 THEN <<>>
    ELSE LET nl == FirstOf(text, {"\n"})
         IN IF nl > Len(text) THEN <<text>>
            ELSE <<SubSeq(text, 1, nl)>> \o readlines(Drop(text, nl + 1))

\* length of the run of whitespace of s that starts at index i
RECURSIVE SpaceRun(_, _)
SpaceRun(s, i) ==
    IF i <= Len(s) /\ IsSpace(s[i]) THEN 1 + SpaceRun(s, i + 1) ELSE 0

\* length of the match of r'^\d+\.\s+' at the start of line, 0 when no match
OrdinalPrefixLen(line) ==
    LET d == DigitRun(line, 1)
    IN IF d > 0 /\ Len(line) >= d + 2 /\ line[d + 1] = "." /\ IsSpace(line[d + 2])
       THEN d + 1 + SpaceRun(line, d + 2)
       ELSE 0

\* re.search(r'/(\d+)(?:[/?#]|$)', line): the digits of the first match,
\* <<>> when there is none
SearchTrailingId(line) ==
    LET ok(i) == /\ line[i] = "/"
                 /\ DigitRun(line, i + 1) > 0
                 /\ LET e == i + DigitRun(line, i + 1)
                    IN e = Len(line) \/ line[e + 1] \in {"/", "?", "#"}
        hits == {i \in 1..Len(line) : ok(i)}
    IN IF hits = {} THEN <<>>
       ELSE LET i == CHOOSE k \in hits : \A j \in hits : k <= j
            IN SubSeq(line, i + 1, i + DigitRun(line, i + 1))

\* (mutant) the lines are visited first to last
LastIdFrom_Forward(lines, n) ==
    IF {k \in 1..n : StartsWith(Strip(lines[k]), HTTP)
                        /\ SearchTrailingId(Strip(lines[k])) # <<>>} = {}
    THEN 0
    ELSE StrToInt(SearchTrailingId(Strip(lines[
             Least({k \in 1..n : StartsWith(Strip(lines[k]), HTTP)
                                   /\ SearchTrailingId(Strip(lines[k])) # <<>>})])))

\* the loop "for line in reversed(lines)" from line number n downwards
RECURSIVE LastIdFrom(_, _)
LastIdFrom(lines, n) ==
    IF n = 0 THEN 0
    ELSE LET line == Strip(lines[n])
         IN IF StartsWith(line, HTTP) /\ SearchTrailingId(line) # <<>>
            THEN StrToInt(SearchTrailingId(line))
            ELSE LastIdFrom(lines, n - 1)

get_last_id_from_file(file) ==
    IF file = NoFile THEN 0
    ELSE LET lines == readlines(file[1])
         IN IF lines = <<>> THEN 0 ELSE LastIdFrom(lines, Len(lines))

\* the loop "while i < len(lines)" from line number i (1-based) upwards
RECURSIVE LoadFrom(_, _)
LoadFrom(lines, i) ==
    IF i > Len(lines) THEN <<>>
    ELSE LET line == Strip(lines[i])
             n    == OrdinalPrefixLen(line)
         IN IF n > 0 /\ i + 1 <= Len(lines) /\ StartsWith(Strip(lines[i + 1]), HTTP)
            THEN <<[name |-> Drop(line, n + 1), url |-> Strip(lines[i + 1])]>>
                 \o LoadFrom(lines, i + 2)
            ELSE LoadFrom(lines, i + 1)

load_existing_products(file) ==
    IF file = NoFile THEN <<>> ELSE LoadFrom(readlines(file[1]), 1)

\* the two f.write calls for record number idx
WriteRecord(idx, rec) ==
    IntToStr(idx) \o <<".", " ">> \o rec.name \o <<"\n">> \o rec.url \o <<"\n", "\n">>

\* the text written for products[idx..]
RECURSIVE WriteFrom(_, _)
WriteFrom(products, idx) ==
    IF idx > Len(products) THEN <<>>
    ELSE WriteRecord(idx, products[idx]) \o WriteFrom(products, idx + 1)

\* the file after save_products_to_file
save_products_to_file(products) == FileOf(WriteFrom(products, 1))

\* ------------------------------------------------------------------------
\* State
\* ------------------------------------------------------------------------
VARIABLES
    site,                               \* how the storefront answers (environment)
    files,                              \* domain -> text of <domain>.txt, or NoFile
    workflow,                           \* which entry point runs: "pass", "main", "slack", "store"
    pc,                                 \* position of the entry point
    product_url,                        \* the input URL of the session
    input_product_id,                   \* extract_product_id_from_input_url(product_url)
    domain,                             \* get_domain_from_url(product_url)
    existing_products,                  \* load_existing_products(domain)
    last_id,                            \* get_last_id_from_file(domain)
    slack_start_id,                     \* start_id of scan_for_slack
    pass_no,                            \* 0 before the first scan_pass call, then 1, 2
    sessions,                           \* sessions started so far
    result,                             \* what the entry point returned
    template_url,                       \* scan_pass parameters
    start_id,
    stop_after_consecutive_misses,
    allow_extra_retry_if_zero_found,
    product_id,                         \* scan_pass locals
    consecutive_misses,
    consecutive_hits,
    extra_retry_used,
    found_products,
    found_urls,
    pass_state,                         \* "idle", "scanning", "returned", "raised"
    fetch_count,                        \* history: fetches made by the current pass
    last_fetched,                       \* history: the id of the latest fetch, 0 if none
    saved,                              \* history: domain -> the list last given to save_products_to_file
    call,                               \* the latest call of a function run on its own, with its result
    io_error,                           \* history: the file operations that failed, and in which session
    threads                             \* the bot: thread -> locals of run_scan_and_reply

envVars == <<site, files, saved>>

auxVars == <<call, io_error, threads>>

callerVars == <<workflow, pc, product_url, input_product_id, domain,
                existing_products, last_id, slack_start_id, pass_no, sessions, result>>

paramVars == <<template_url, start_id, stop_after_consecutive_misses,
               allow_extra_retry_if_zero_found>>

passVars == <<product_id, consecutive_misses, consecutive_hits, extra_retry_used,
              found_products, found_urls, pass_state, fetch_count, last_fetched>>

vars == <<envVars, auxVars, callerVars, paramVars, passVars>>

\* no function has been called on its own
NoCall == [fn |-> "none"]

\* no file operation has failed
NoIoError == [session |-> 0, failed |-> {}]

\* no bot thread exists
NoThreads == <<>>

\* ------------------------------------------------------------------------
\* The storefront (environment)
\* ------------------------------------------------------------------------
BASE == <<"h", "t", "t", "p", "s", ":", "/", "/", "s", ".", "t">>

\* input URLs given to scan_for_slack
URL_SURL_3 == BASE \o SURL_P \o <<"3">>

WWW_BASE == <<"h", "t", "t", "p", "s", ":", "/", "/", "w", "w", "w", ".", "s", ".", "t">>

IMWEB_BASE == <<"h", "t", "t", "p", "s", ":", "/", "/", "m", ".", "t">>

URL_DETAIL_150 ==
    WWW_BASE \o DETAIL_HTML \o <<"?">> \o PRODUCT_NO \o <<"=", "1", "5", "0">>

URL_IMWEB_3 ==
    IMWEB_BASE \o <<"/", "P", "r", "o", "d", "u", "c", "t", "/", "?", "i", "d", "x", "=", "3">>

URL_ABOUT == BASE \o <<"/", "a", "b", "o", "u", "t">>

URL_DETAIL_NOID ==
    BASE \o DETAIL_HTML \o <<"?", "P", "r", "o", "d", "u", "c", "t", "_", "N", "o", "=", "5">>

\* the first id a first pass resumed at 2 cannot reach, even with its
\* extension
FloodFrom == 2 * STOP_AFTER_CONSECUTIVE_MISSES + 2

URL_SURL_FLOOD == BASE \o SURL_P \o IntToStr(FloodFrom)

SlackInputs ==
    {URL_SURL_3, URL_DETAIL_150, URL_IMWEB_3, URL_ABOUT, URL_DETAIL_NOID, URL_SURL_FLOOD}

\* the domains of the input URLs
Domains == {<<"s", ".", "t">>, <<"m", ".", "t">>}

\* template_url.format(id=product_id)
RECURSIVE FormatId(_, _)
FormatId(template, id) ==
    LET i == Find(template, PLACEHOLDER)
    IN IF i = 0 THEN template
       ELSE SubSeq(template, 1, i - 1) \o IntToStr(id)
            \o FormatId(Drop(template, i + Len(PLACEHOLDER)), id)

\* ids that have a product page of their own
LiveIds == {1, MaxLiveId}

\* the site's home page and a landing page shared by many ids
HomeUrl == BASE \o <<"/">>

LandingUrl == BASE \o <<"/", "e", "v", "e", "n", "t">>

PageFull(title) == [lead |-> 0, text |-> 250, kw |-> FALSE, og |-> NoTag, tw |-> NoTag, title |-> title]

PageStub == [lead |-> 0, text |-> 50, kw |-> FALSE, og |-> NoTag, tw |-> NoTag, title |-> NoTag]

PageGone == [lead |-> 0, text |-> 250, kw |-> TRUE, og |-> NoTag, tw |-> NoTag, title |-> Tag(<<"x">>)]

\* product 1 has an empty <title></title>, the others a title with stray blanks
OwnPage(id) ==
    IF id = 1 THEN PageFull(Tag(<<>>))
    ELSE PageFull(Tag(<<" ", "a", " ", " ">> \o IntToStr(id) \o <<"\n">>))

MissResponses(url) ==
    { [status |-> 404, url |-> url, html |-> PageFull(NoTag)],
      [status |-> 200, url |-> HomeUrl, html |-> PageFull(NoTag)],
      [status |-> 200, url |-> url, html |-> PageStub],
      [status |-> 200, url |-> url, html |-> PageGone] }

Sites == {"open", "catalog", "catchall", "flood"}

\* the templates the input URLs resolve to
Templates == {CAFE24_TEMPLATE(BASE), CAFE24_TEMPLATE(WWW_BASE), IMWEB_TEMPLATE(IMWEB_BASE)}

ProductIds == 1..(MaxLiveId + 1 + MaxAttempts)

\* url = template_url.format(id=product_id), tabulated
RequestUrl == [t \in Templates, p \in ProductIds |-> FormatId(t, p)]

\* what session.get(url) may return for product id p of a storefront of kind
\* s scanned with template t:
\*   "open"      any id may be missing or redirect to the landing page
\*   "catalog"   only the live ids exist: they show their own page or redirect
\*               to the page of another live id; every other id is missing
\*   "catchall"  every id redirects to the landing page
\*   "flood"     id 1 shows its own page, the ids from FloodFrom on redirect
\*               to the landing page, every id between them is missing
Responses(s, t, p) ==
    (IF s \in {"open", "catalog"} \/ (s = "flood" /\ 1 < p /\ p < FloodFrom)
     THEN MissResponses(RequestUrl[t, p]) ELSE {})
    \cup (IF s = "catalog" /\ p \in LiveIds
          THEN {[status |-> 200, url |-> RequestUrl[t, q], html |-> OwnPage(q)] : q \in LiveIds}
          ELSE {})
    \cup (IF s = "flood" /\ p = 1
          THEN {[status |-> 200, url |-> RequestUrl[t, 1], html |-> OwnPage(MaxLiveId)]}
          ELSE {})
    \cup (IF s \in {"open", "catchall"} \/ (s = "flood" /\ p >= FloodFrom)
          THEN {[status |-> 200, url |-> LandingUrl, html |-> PageFull(NoTag)]}
          ELSE {})

\* the responses the oracle classifies as existing, each with the name
\* scan_pass extracts from it (tabulated)
ExistsOutcomes ==
    [s \in Sites, t \in Templates, p \in ProductIds |->
        {[url |-> r.url, name |-> extract_product_name(r.html)] :
            r \in {x \in Responses(s, t, p) :
                      ~looks_not_found(x.status, RequestUrl[t, p], x.url, x.html)}}]

\* whether some response is classified as not found (tabulated)
MissingOutcome ==
    [s \in Sites, t \in Templates, p \in ProductIds |->
        \E r \in Responses(s, t, p) :
            looks_not_found(r.status, RequestUrl[t, p], r.url, r.html)]

\* ------------------------------------------------------------------------
\* Scanner (1-pass)
\* ------------------------------------------------------------------------
\* (mutant) the guard compares with > instead of >=
AnomalyReached_StrictlyAbove(hits) == hits > STOP_AFTER_CONSECUTIVE_HITS

\* if consecutive_hits >= STOP_AFTER_CONSECUTIVE_HITS
AnomalyReached(hits) == hits >= STOP_AFTER_CONSECUTIVE_HITS

\* (mutant) the miss threshold never stops the pass
StopTriggered_Never(misses, threshold) == FALSE

\* if consecutive_misses >= stop_after_consecutive_misses
StopTriggered(misses, threshold) == misses >= threshold

\* (mutant) the extension is not marked as consumed
ExtraRetryGranted_Unlimited(allow, found, used) == allow /\ Len(found) = 0

\* allow_extra_retry_if_zero_found and len(found_products) == 0 and not extra_retry_used
ExtraRetryGranted(allow, found, used) == allow /\ Len(found) = 0 /\ ~used

\* (mutant) the cursor skips an id
NextId_Skip(id) == id + 2

\* product_id += 1
NextId(id) == id + 1

\* the head of scan_pass: the locals before the first iteration
EnterPass(template, start, threshold, allow, found, urls) ==
    /\ template_url' = template
    /\ start_id' = start
    /\ stop_after_consecutive_misses' = threshold
    /\ allow_extra_retry_if_zero_found' = allow
    /\ product_id' = start
    /\ consecutive_misses' = 0
    /\ consecutive_hits' = 0
    /\ extra_retry_used' = FALSE
    /\ found_products' = found
    /\ found_urls' = urls
    /\ pass_state' = "scanning"
    /\ fetch_count' = 0
    /\ last_fetched' = 0

\* the tail of one iteration: the stop check and the cursor increment, with
\* misses the value of consecutive_misses and found the value of found_products
LoopTail(misses, found) ==
    IF StopTriggered(misses, stop_after_consecutive_misses)
    THEN IF ExtraRetryGranted(allow_extra_retry_if_zero_found, found, extra_retry_used)
         THEN /\ consecutive_misses' = 0
              /\ extra_retry_used' = TRUE
              /\ product_id' = NextId(product_id)
              /\ pass_state' = "scanning"
         ELSE /\ consecutive_misses' = misses
              /\ pass_state' = "returned"
              /\ UNCHANGED <<extra_retry_used, product_id>>
    ELSE /\ consecutive_misses' = misses
         /\ product_id' = NextId(product_id)
         /\ UNCHANGED <<extra_retry_used, pass_state>>

CanFetch == pass_state = "scanning" /\ fetch_count < MaxAttempts

\* one iteration whose response the oracle classifies as existing
FetchExists ==
    /\ CanFetch
    /\ \E r \in ExistsOutcomes[site, template_url, product_id] :
         LET found == IF r.url \notin found_urls
                      THEN Append(found_products, [name |-> r.name, url |-> r.url])
                      ELSE found_products
         IN /\ found_products' = found
            /\ found_urls' = found_urls \cup {r.url}
            /\ consecutive_hits' = consecutive_hits + 1
            /\ fetch_count' = fetch_count + 1
            /\ last_fetched' = product_id
            /\ IF AnomalyReached(consecutive_hits + 1)
               THEN /\ pass_state' = "raised"
                    /\ consecutive_misses' = 0
                    /\ UNCHANGED <<extra_retry_used, product_id>>
               ELSE LoopTail(0, found)
    /\ UNCHANGED <<auxVars, envVars, callerVars, paramVars>>

\* one iteration whose response the oracle classifies as not found
FetchMissing ==
    /\ CanFetch
    /\ MissingOutcome[site, template_url, product_id]
    /\ consecutive_hits' = 0
    /\ fetch_count' = fetch_count + 1
    /\ last_fetched' = product_id
    /\ LoopTail(consecutive_misses + 1, found_products)
    /\ UNCHANGED <<found_products, found_urls>>
    /\ UNCHANGED <<auxVars, envVars, callerVars, paramVars>>

\* (mutant) a transport failure does not reset the streak of hits
FetchError_KeepsHits ==
    /\ CanFetch
    /\ site \in {"open", "catalog"}
    /\ fetch_count' = fetch_count + 1
    /\ last_fetched' = product_id
    /\ LoopTail(consecutive_misses + 1, found_products)
    /\ UNCHANGED <<consecutive_hits, found_products, found_urls>>
    /\ UNCHANGED <<auxVars, envVars, callerVars, paramVars>>

\* one iteration whose session.get raises requests.RequestException
FetchError ==
    /\ CanFetch
    /\ site \in {"open", "catalog"}
    /\ consecutive_hits' = 0
    /\ fetch_count' = fetch_count + 1
    /\ last_fetched' = product_id
    /\ LoopTail(consecutive_misses + 1, found_products)
    /\ UNCHANGED <<found_products, found_urls>>
    /\ UNCHANGED <<auxVars, envVars, callerVars, paramVars>>

\* ------------------------------------------------------------------------
\* scan_for_slack
\* ------------------------------------------------------------------------
NoResult == [kind |-> "none", all_products |-> <<>>, found_products |-> <<>>]

Raised(kind) == [kind |-> kind, all_products |-> <<>>, found_products |-> <<>>]

\* raise ValueError(message)
ValueError(message) ==
    [kind |-> "ValueError", message |-> message, all_products |-> <<>>,
     found_products |-> <<>>]

UNSUPPORTED_PATTERN == "Unsupported product URL pattern"

NO_PRODUCT_ID == "Failed to extract product id from URL"

\* start_id = last_id + 1 if last_id > 0 else 1
ResumeStartId(last) == IF last > 0 THEN last + 1 ELSE 1

\* (mutant) the seen-URL set of the first pass starts empty
ExistingUrls_None(existing) == {}

\* existing_urls = {url for _, url in existing_products}
ExistingUrls(existing) == {existing[i].url : i \in 1..Len(existing)}

\* (mutant) the comparison admits equality
MainSecondPassNeeded_Inclusive(input_id, count) == count * 100 <= input_id

\* len(found_products) < input_product_id * 0.01; the float product is
\* exact enough that this is count * 100 < id for every id below 200000
BelowOnePercent(count, id) == count * 100 < id

\* (mutant) the second pass does not depend on the resume start id
SlackSecondPassNeeded_AnyStart(input_id, start, count) == count * 100 < input_id

\* input_product_id > start_id and len(found_products) < (input_product_id * 0.01)
SlackSecondPassNeeded(input_id, start, count) ==
    input_id > start /\ BelowOnePercent(count, input_id)

\* threshold = input_product_id * 0.01; if len(found_products) < threshold
MainSecondPassNeeded(input_id, count) == BelowOnePercent(count, input_id)

CanStart(w) == workflow = w /\ pc = "idle" /\ sessions < MaxSessions

\* detect_platform_from_product_url finds no platform: ValueError
SlackUnsupported ==
    /\ CanStart("slack")
    /\ \E u \in SlackInputs :
         /\ detect_platform_from_product_url(u) = NoPlatform
         /\ product_url' = u
    /\ result' = ValueError(UNSUPPORTED_PATTERN)
    /\ sessions' = sessions + 1
    /\ UNCHANGED <<auxVars, envVars, workflow, pc, input_product_id, domain, existing_products,
                   last_id, slack_start_id, pass_no, paramVars, passVars>>

\* extract_product_id_from_input_url returns None: ValueError
\* (mutant) the store is read before the identifier is checked
SlackNoId_AfterLoad ==
    /\ CanStart("slack")
    /\ \E u \in SlackInputs :
         /\ detect_platform_from_product_url(u) # NoPlatform
         /\ extract_product_id_from_input_url(u) = None
         /\ product_url' = u
         /\ existing_products' = load_existing_products(files[get_domain_from_url(u)])
    /\ result' = ValueError(NO_PRODUCT_ID)
    /\ sessions' = sessions + 1
    /\ UNCHANGED <<auxVars, envVars, workflow, pc, input_product_id, domain,
                   last_id, slack_start_id, pass_no, paramVars, passVars>>

SlackNoId ==
    /\ CanStart("slack")
    /\ \E u \in SlackInputs :
         /\ detect_platform_from_product_url(u) # NoPlatform
         /\ extract_product_id_from_input_url(u) = None
         /\ product_url' = u
    /\ result' = ValueError(NO_PRODUCT_ID)
    /\ sessions' = sessions + 1
    /\ UNCHANGED <<auxVars, envVars, workflow, pc, input_product_id, domain, existing_products,
                   last_id, slack_start_id, pass_no, paramVars, passVars>>

\* scan_for_slack from the reading of the store to the head of the first pass
SlackResume(template, existing, last) ==
    /\ existing_products' = existing
    /\ last_id' = last
    /\ slack_start_id' = ResumeStartId(last)
    /\ EnterPass(template, ResumeStartId(last), STOP_AFTER_CONSECUTIVE_MISSES,
                 TRUE, <<>>, ExistingUrls(existing))

\* scan_for_slack from its checks of the input to the head of the first pass
SlackEnter(u, det, id, dom) ==
    /\ det # NoPlatform
    /\ id # None
    /\ product_url' = u
    /\ input_product_id' = id[1]
    /\ domain' = dom
    /\ SlackResume(det.template, load_existing_products(files[dom]),
                   get_last_id_from_file(files[dom]))

\* scan_for_slack up to the first fetch of the first pass
SlackStart ==
    /\ CanStart("slack")
    /\ \E u \in SlackInputs :
         SlackEnter(u, detect_platform_from_product_url(u),
                    extract_product_id_from_input_url(u), get_domain_from_url(u))
    /\ pass_no' = 1
    /\ pc' = "running"
    /\ sessions' = sessions + 1
    /\ result' = NoResult
    /\ UNCHANGED <<auxVars, envVars, workflow>>

ReturnedFrom(w, n) == workflow = w /\ pc = "running" /\ pass_no = n /\ pass_state = "returned"

\* the first pass returned and the second-pass condition holds
SlackSecondPass ==
    /\ ReturnedFrom("slack", 1)
    /\ SlackSecondPassNeeded(input_product_id, slack_start_id, Len(found_products))
    /\ EnterPass(template_url, input_product_id, STOP_AFTER_CONSECUTIVE_MISSES,
                 FALSE, found_products, found_urls)
    /\ pass_no' = 2
    /\ UNCHANGED <<auxVars, envVars, workflow, pc, product_url, input_product_id, domain,
                   existing_products, last_id, slack_start_id, sessions, result>>

\* the last pass returned: merge, save and return
SlackFinish ==
    /\ \/ ReturnedFrom("slack", 2)
       \/ /\ ReturnedFrom("slack", 1)
          /\ ~SlackSecondPassNeeded(input_product_id, slack_start_id, Len(found_products))
    /\ LET all_products == existing_products \o found_products
       IN /\ files' = [files EXCEPT ![domain] = save_products_to_file(all_products)]
          /\ saved' = [saved EXCEPT ![domain] = all_products]
          /\ result' = [kind |-> "ok", all_products |-> all_products,
                        found_products |-> found_products]
    /\ pc' = "idle"
    /\ pass_state' = "idle"
    /\ UNCHANGED <<auxVars, site, workflow, product_url, input_product_id, domain, existing_products,
                   last_id, slack_start_id, pass_no, sessions, paramVars,
                   product_id, consecutive_misses, consecutive_hits, extra_retry_used,
                   found_products, found_urls, fetch_count, last_fetched>>

\* (mutant) the records found so far are saved before the error leaves
SlackAnomaly_SavesFound ==
    /\ workflow = "slack" /\ pc = "running" /\ pass_state = "raised"
    /\ files' = [files EXCEPT ![domain] = save_products_to_file(existing_products \o found_products)]
    /\ saved' = [saved EXCEPT ![domain] = existing_products \o found_products]
    /\ result' = Raised("RuntimeError")
    /\ pc' = "idle"
    /\ pass_state' = "idle"
    /\ UNCHANGED <<auxVars, site, workflow, product_url, input_product_id, domain, existing_products,
                   last_id, slack_start_id, pass_no, sessions, paramVars,
                   product_id, consecutive_misses, consecutive_hits, extra_retry_used,
                   found_products, found_urls, fetch_count, last_fetched>>

\* scan_pass raised RuntimeError: it leaves scan_for_slack
SlackAnomaly ==
    /\ workflow = "slack" /\ pc = "running" /\ pass_state = "raised"
    /\ result' = Raised("RuntimeError")
    /\ pc' = "idle"
    /\ pass_state' = "idle"
    /\ UNCHANGED <<auxVars, envVars, workflow, product_url, input_product_id, domain, existing_products,
                   last_id, slack_start_id, pass_no, sessions, paramVars,
                   product_id, consecutive_misses, consecutive_hits, extra_retry_used,
                   found_products, found_urls, fetch_count, last_fetched>>

\* ------------------------------------------------------------------------
\* Specification of a bot process that runs scan_for_slack sessions
\* ------------------------------------------------------------------------
Init ==
    /\ site \in {"catalog", "catchall", "flood"}
    /\ files = [d \in Domains |-> NoFile]
    /\ saved = [d \in Domains |-> <<>>]
    /\ call = NoCall
    /\ io_error = NoIoError
    /\ threads = NoThreads
    /\ workflow = "slack"
    /\ pc = "idle"
    /\ product_url = <<>>
    /\ input_product_id = 0
    /\ domain = <<>>
    /\ existing_products = <<>>
    /\ last_id = 0
    /\ slack_start_id = 0
    /\ pass_no = 0
    /\ sessions = 0
    /\ result = NoResult
    /\ template_url = <<>>
    /\ start_id = 0
    /\ stop_after_consecutive_misses = 0
    /\ allow_extra_retry_if_zero_found = FALSE
    /\ product_id = 0
    /\ consecutive_misses = 0
    /\ consecutive_hits = 0
    /\ extra_retry_used = FALSE
    /\ found_products = <<>>
    /\ found_urls = {}
    /\ pass_state = "idle"
    /\ fetch_count = 0
    /\ last_fetched = 0

Next ==
    \/ SlackUnsupported
    \/ SlackNoId
    \/ SlackStart
    \/ FetchExists
    \/ FetchMissing
    \/ FetchError
    \/ SlackSecondPass
    \/ SlackFinish
    \/ SlackAnomaly

Spec == Init /\ [][Next]_vars

\* ------------------------------------------------------------------------
\* main
\* ------------------------------------------------------------------------
URL_IMWEB_72 ==
    IMWEB_BASE \o <<"/", "P", "r", "o", "d", "u", "c", "t", "/", "?", "i", "d", "x", "=", "7", "2">>

URL_CATEGORY_100 ==
    BASE \o PRODUCT_DIR \o <<"x", "/", "1", "0", "0">> \o CATEGORY_DIR \o <<"2", "4", "/">>

\* input URLs typed at the prompt of main
MainInputs ==
    {URL_SURL_3, URL_IMWEB_72, URL_CATEGORY_100, URL_DETAIL_150, URL_ABOUT, URL_DETAIL_NOID}

\* main runs once per process
MainCanStart == workflow = "main" /\ pc = "idle" /\ sessions = 0

\* detect_platform_from_product_url finds no platform: message and return
MainUnsupported ==
    /\ MainCanStart
    /\ \E u \in MainInputs :
         /\ detect_platform_from_product_url(u) = NoPlatform
         /\ product_url' = u
    /\ result' = Raised("unsupported")
    /\ sessions' = sessions + 1
    /\ UNCHANGED <<auxVars, envVars, workflow, pc, input_product_id, domain, existing_products,
                   last_id, slack_start_id, pass_no, paramVars, passVars>>

\* extract_product_id_from_input_url returns None: message and return
MainNoId ==
    /\ MainCanStart
    /\ \E u \in MainInputs :
         /\ detect_platform_from_product_url(u) # NoPlatform
         /\ extract_product_id_from_input_url(u) = None
         /\ product_url' = u
    /\ result' = Raised("no id")
    /\ sessions' = sessions + 1
    /\ UNCHANGED <<auxVars, envVars, workflow, pc, input_product_id, domain, existing_products,
                   last_id, slack_start_id, pass_no, paramVars, passVars>>

\* main from its checks of the input to the head of the first pass
MainEnter(u, det, id) ==
    /\ det # NoPlatform
    /\ id # None
    /\ product_url' = u
    /\ input_product_id' = id[1]
    /\ EnterPass(det.template, 1, STOP_AFTER_CONSECUTIVE_MISSES, TRUE, <<>>, {})

\* main up to the first fetch of the first pass
MainStart ==
    /\ MainCanStart
    /\ \E u \in MainInputs :
         MainEnter(u, detect_platform_from_product_url(u),
                   extract_product_id_from_input_url(u))
    /\ pass_no' = 1
    /\ pc' = "running"
    /\ sessions' = sessions + 1
    /\ result' = NoResult
    /\ UNCHANGED <<auxVars, envVars, workflow, domain, existing_products, last_id, slack_start_id>>

\* the first pass returned and len(found_products) < threshold
MainSecondPass ==
    /\ ReturnedFrom("main", 1)
    /\ MainSecondPassNeeded(input_product_id, Len(found_products))
    /\ EnterPass(template_url, input_product_id, STOP_AFTER_CONSECUTIVE_MISSES,
                 FALSE, found_products, found_urls)
    /\ pass_no' = 2
    /\ UNCHANGED <<auxVars, envVars, workflow, pc, product_url, input_product_id, domain,
                   existing_products, last_id, slack_start_id, sessions, result>>

\* the last pass returned: the final summary
MainFinish ==
    /\ \/ ReturnedFrom("main", 2)
       \/ /\ ReturnedFrom("main", 1)
          /\ ~MainSecondPassNeeded(input_product_id, Len(found_products))
    /\ result' = [kind |-> "ok", all_products |-> found_products,
                  found_products |-> found_products]
    /\ pc' = "idle"
    /\ pass_state' = "idle"
    /\ UNCHANGED <<auxVars, envVars, workflow, product_url, input_product_id, domain, existing_products,
                   last_id, slack_start_id, pass_no, sessions, paramVars,
                   product_id, consecutive_misses, consecutive_hits, extra_retry_used,
                   found_products, found_urls, fetch_count, last_fetched>>

\* scan_pass raised RuntimeError: it leaves main
MainAnomaly ==
    /\ workflow = "main" /\ pc = "running" /\ pass_state = "raised"
    /\ result' = Raised("RuntimeError")
    /\ pc' = "idle"
    /\ pass_state' = "idle"
    /\ UNCHANGED <<auxVars, envVars, workflow, product_url, input_product_id, domain, existing_products,
                   last_id, slack_start_id, pass_no, sessions, paramVars,
                   product_id, consecutive_misses, consecutive_hits, extra_retry_used,
                   found_products, found_urls, fetch_count, last_fetched>>

InitMain ==
    /\ site \in {"catalog", "catchall"}
    /\ files = [d \in Domains |-> NoFile]
    /\ saved = [d \in Domains |-> <<>>]
    /\ call = NoCall
    /\ io_error = NoIoError
    /\ threads = NoThreads
    /\ workflow = "main"
    /\ pc = "idle"
    /\ product_url = <<>>
    /\ input_product_id = 0
    /\ domain = <<>>
    /\ existing_products = <<>>
    /\ last_id = 0
    /\ slack_start_id = 0
    /\ pass_no = 0
    /\ sessions = 0
    /\ result = NoResult
    /\ template_url = <<>>
    /\ start_id = 0
    /\ stop_after_consecutive_misses = 0
    /\ allow_extra_retry_if_zero_found = FALSE
    /\ product_id = 0
    /\ consecutive_misses = 0
    /\ consecutive_hits = 0
    /\ extra_retry_used = FALSE
    /\ found_products = <<>>
    /\ found_urls = {}
    /\ pass_state = "idle"
    /\ fetch_count = 0
    /\ last_fetched = 0

NextMain ==
    \/ MainUnsupported
    \/ MainNoId
    \/ MainStart
    \/ FetchExists
    \/ FetchMissing
    \/ FetchError
    \/ MainSecondPass
    \/ MainFinish
    \/ MainAnomaly

SpecMain == InitMain /\ [][NextMain]_vars

\* ------------------------------------------------------------------------
\* Specification of one scan_pass call with arbitrary arguments
\* ------------------------------------------------------------------------
\* (found_products, found_urls) arguments: fresh, seeded with known urls
PassSeeds ==
    { [found |-> <<>>, urls |-> {}],
      [found |-> <<>>, urls |-> {LandingUrl}] }

\* (start_id, stop_after_consecutive_misses) arguments
PassArgs ==
    { [start |-> 1, threshold |-> SmallThreshold],
      [start |-> MaxLiveId, threshold |-> STOP_AFTER_CONSECUTIVE_MISSES] }

InitPass ==
    /\ site = "open"
    /\ files = [d \in Domains |-> NoFile]
    /\ saved = [d \in Domains |-> <<>>]
    /\ call = NoCall
    /\ io_error = NoIoError
    /\ threads = NoThreads
    /\ workflow = "pass"
    /\ pc = "running"
    /\ product_url = <<>>
    /\ input_product_id = 0
    /\ domain = <<>>
    /\ existing_products = <<>>
    /\ last_id = 0
    /\ slack_start_id = 0
    /\ pass_no = 1
    /\ sessions = 0
    /\ result = NoResult
    /\ template_url = CAFE24_TEMPLATE(BASE)
    /\ \E a \in PassArgs : start_id = a.start /\ stop_after_consecutive_misses = a.threshold
    /\ allow_extra_retry_if_zero_found \in BOOLEAN
    /\ product_id = start_id
    /\ consecutive_misses = 0
    /\ consecutive_hits = 0
    /\ extra_retry_used = FALSE
    /\ \E seed \in PassSeeds : found_products = seed.found /\ found_urls = seed.urls
    /\ pass_state = "scanning"
    /\ fetch_count = 0
    /\ last_fetched = 0

NextPass == FetchExists \/ FetchMissing \/ FetchError

SpecPass == InitPass /\ [][NextPass]_vars

\* ------------------------------------------------------------------------
\* Specification of one scan_pass call on a storefront where finitely many
\* ids exist, or where every id exists; every iteration of the loop ends,
\* since session.get has a timeout
\* ------------------------------------------------------------------------
InitTerm ==
    /\ site \in {"catalog", "catchall"}
    /\ files = [d \in Domains |-> NoFile]
    /\ saved = [d \in Domains |-> <<>>]
    /\ call = NoCall
    /\ io_error = NoIoError
    /\ threads = NoThreads
    /\ workflow = "pass"
    /\ pc = "running"
    /\ product_url = <<>>
    /\ input_product_id = 0
    /\ domain = <<>>
    /\ existing_products = <<>>
    /\ last_id = 0
    /\ slack_start_id = 0
    /\ pass_no = 1
    /\ sessions = 0
    /\ result = NoResult
    /\ template_url = CAFE24_TEMPLATE(BASE)
    /\ \E a \in PassArgs : start_id = a.start /\ stop_after_consecutive_misses = a.threshold
    /\ allow_extra_retry_if_zero_found \in BOOLEAN
    /\ product_id = start_id
    /\ consecutive_misses = 0
    /\ consecutive_hits = 0
    /\ extra_retry_used = FALSE
    /\ \E seed \in PassSeeds : found_products = seed.found /\ found_urls = seed.urls
    /\ pass_state = "scanning"
    /\ fetch_count = 0
    /\ last_fetched = 0

SpecTerm == InitTerm /\ [][NextPass]_vars /\ WF_vars(NextPass)

\* ------------------------------------------------------------------------
\* Specification of the store on its own: one list saved, loaded, measured
\* ------------------------------------------------------------------------
\* names extract_product_name returns: empty, the marker, a cleaned title
StoreNames == {<<>>, EXTRACTION_FAILED, <<"a", " ", "3">>}

\* final URLs a pass records
StoreUrls ==
    { BASE \o SURL_P \o <<"1", "2">>,
      BASE \o SURL_P \o <<"3">>,
      IMWEB_BASE \o <<"/", "P", "r", "o", "d", "u", "c", "t", "/", "?", "i", "d", "x", "=", "7">>,
      LandingUrl }

StoreRecords == {[name |-> n, url |-> u] : n \in StoreNames, u \in StoreUrls}

RecordLists == UNION {[1..n -> StoreRecords] : n \in 0..MaxRecords}

\* save_products_to_file(domain, products)
StoreSave ==
    /\ workflow = "store" /\ pc = "idle"
    /\ \E products \in RecordLists :
         /\ files' = [files EXCEPT ![domain] = save_products_to_file(products)]
         /\ saved' = [saved EXCEPT ![domain] = products]
    /\ pc' = "saved"
    /\ UNCHANGED <<auxVars, site, workflow, product_url, input_product_id, domain, existing_products,
                   last_id, slack_start_id, pass_no, sessions, result, paramVars, passVars>>

\* load_existing_products(domain)
StoreLoad ==
    /\ workflow = "store" /\ pc = "saved"
    /\ existing_products' = load_existing_products(files[domain])
    /\ pc' = "loaded"
    /\ UNCHANGED <<auxVars, envVars, workflow, product_url, input_product_id, domain,
                   last_id, slack_start_id, pass_no, sessions, result, paramVars, passVars>>

\* get_last_id_from_file(domain)
StoreLastId ==
    /\ workflow = "store" /\ pc = "loaded"
    /\ last_id' = get_last_id_from_file(files[domain])
    /\ pc' = "measured"
    /\ UNCHANGED <<auxVars, envVars, workflow, product_url, input_product_id, domain,
                   existing_products, slack_start_id, pass_no, sessions, result,
                   paramVars, passVars>>

InitStore ==
    /\ site = "catalog"
    /\ files = [d \in Domains |-> NoFile]
    /\ saved = [d \in Domains |-> <<>>]
    /\ call = NoCall
    /\ io_error = NoIoError
    /\ threads = NoThreads
    /\ workflow = "store"
    /\ pc = "idle"
    /\ product_url = <<>>
    /\ input_product_id = 0
    /\ domain \in Domains
    /\ existing_products = <<>>
    /\ last_id = 0
    /\ slack_start_id = 0
    /\ pass_no = 0
    /\ sessions = 0
    /\ result = NoResult
    /\ template_url = <<>>
    /\ start_id = 0
    /\ stop_after_consecutive_misses = 0
    /\ allow_extra_retry_if_zero_found = FALSE
    /\ product_id = 0
    /\ consecutive_misses = 0
    /\ consecutive_hits = 0
    /\ extra_retry_used = FALSE
    /\ found_products = <<>>
    /\ found_urls = {}
    /\ pass_state = "idle"
    /\ fetch_count = 0
    /\ last_fetched = 0

NextStore == StoreSave \/ StoreLoad \/ StoreLastId

SpecStore == InitStore /\ [][NextStore]_vars

\* ------------------------------------------------------------------------
\* Specification of the bot process with storage I/O errors
\* ------------------------------------------------------------------------
\* the reads of the store at the start of scan_for_slack
StoreReads == {"load", "last_id"}

\* load_existing_products when open or readlines raises: the except clause
\* prints a warning and the empty list is returned
load_existing_products_failing == <<>>

\* get_last_id_from_file when open or readlines raises: return 0
get_last_id_from_file_failing == 0

\* scan_for_slack up to the head of the first pass when the reads in failing
\* raise an I/O error inside their function
SlackEnterFailing(u, det, id, dom, failing) ==
    /\ det # NoPlatform
    /\ id # None
    /\ files[dom] # NoFile
    /\ product_url' = u
    /\ input_product_id' = id[1]
    /\ domain' = dom
    /\ SlackResume(det.template,
                   IF "load" \in failing THEN load_existing_products_failing
                   ELSE load_existing_products(files[dom]),
                   IF "last_id" \in failing THEN get_last_id_from_file_failing
                   ELSE get_last_id_from_file(files[dom]))

\* scan_for_slack up to the first fetch when a read of the store fails
SlackStartReadError ==
    /\ CanStart("slack")
    /\ \E u \in SlackInputs, failing \in (SUBSET StoreReads) \ {{}} :
         /\ SlackEnterFailing(u, detect_platform_from_product_url(u),
                              extract_product_id_from_input_url(u),
                              get_domain_from_url(u), failing)
         /\ io_error' = [session |-> sessions + 1, failed |-> failing]
    /\ pass_no' = 1
    /\ pc' = "running"
    /\ sessions' = sessions + 1
    /\ result' = NoResult
    /\ UNCHANGED <<envVars, call, threads, workflow>>

\* the file after save_products_to_file raised inside its try: as it was
\* when open failed, empty when open truncated it and a write failed
FailedSaveOutcomes(file) == {file, FileOf(<<>>)}

\* the failures of the running session so far
FailedSoFar == IF io_error.session = sessions THEN io_error.failed ELSE {}

\* the last pass returned: merge, the save fails and is only printed, return
SlackFinishSaveError ==
    /\ \/ ReturnedFrom("slack", 2)
       \/ /\ ReturnedFrom("slack", 1)
          /\ ~SlackSecondPassNeeded(input_product_id, slack_start_id, Len(found_products))
    /\ \E file \in FailedSaveOutcomes(files[domain]) :
         /\ files' = [files EXCEPT ![domain] = file]
         /\ saved' = [saved EXCEPT ![domain] = load_existing_products(file)]
    /\ result' = [kind |-> "ok", all_products |-> existing_products \o found_products,
                  found_products |-> found_products]
    /\ io_error' = [session |-> sessions, failed |-> FailedSoFar \cup {"save"}]
    /\ pc' = "idle"
    /\ pass_state' = "idle"
    /\ UNCHANGED <<call, threads, site, workflow, product_url, input_product_id, domain,
                   existing_products, last_id, slack_start_id, pass_no, sessions, paramVars,
                   product_id, consecutive_misses, consecutive_hits, extra_retry_used,
                   found_products, found_urls, fetch_count, last_fetched>>

NextFaults == Next \/ SlackStartReadError \/ SlackFinishSaveError

SpecFaults == Init /\ [][NextFaults]_vars

\* ------------------------------------------------------------------------
\* Specification of the chat bot: one thread per message with a URL
\* ------------------------------------------------------------------------
URL_CHARS_END == {" ", "\n", "\t", "<", ">"}

\* length of the match of URL_RE at index i of text, 0 when none; low is
\* the text in lower case (re.IGNORECASE)
UrlMatchLen(low, i) ==
    IF At(low, i, SCHEME_HTTPS) /\ FirstOf(Drop(low, i + 8), URL_CHARS_END) > 1
    THEN 8 + FirstOf(Drop(low, i + 8), URL_CHARS_END) - 1
    ELSE IF At(low, i, SCHEME_HTTP) /\ FirstOf(Drop(low, i + 7), URL_CHARS_END) > 1
    THEN 7 + FirstOf(Drop(low, i + 7), URL_CHARS_END) - 1
    ELSE 0

\* m.group(0) of the leftmost match, which starts at index i
UrlMatchAt(text, i) == <<SubSeq(text, i, i + UrlMatchLen(Lower(text), i) - 1)>>

\* URL_RE.search(text): None or the first URL of the text
extract_first_url(text) ==
    IF {i \in 1..Len(text) : UrlMatchLen(Lower(text), i) > 0} = {} THEN None
    ELSE UrlMatchAt(text, Least({i \in 1..Len(text) : UrlMatchLen(Lower(text), i) > 0}))

\* for i, (name, url) in enumerate(results, 1): every element of results is
\* unpacked into two names, which raises ValueError unless its length is 2
format_results(results) ==
    IF Len(results) = 0 THEN [kind |-> "text", entries |-> <<>>]
    ELSE IF \A k \in 1..Len(results) : Len(results[k]) = 2
    THEN [kind |-> "text",
          entries |-> [k \in 1..Len(results) |-> [name |-> results[k][1], url |-> results[k][2]]]]
    ELSE [kind |-> "raise", exception |-> "ValueError"]

\* the posts of run_scan_and_reply and handle_message_events in a thread
ACK == [kind |-> "ack"]

UnsupportedReply(url) == [kind |-> "unsupported", url |-> url]

StartNotice(det) == [kind |-> "start", platform |-> det.platform, template |-> det.template]

ErrorReply(exception) == [kind |-> "error", exception |-> exception]

\* post_thread("scan result" + format_results(results)), or the post of the
\* except clause when format_results raises
ResultReply(formatted) ==
    IF formatted.kind = "raise" THEN ErrorReply(formatted.exception)
    ELSE [kind |-> "result", entries |-> formatted.entries]

TARGET_CHANNEL_ID == "C1"

\* inbound message events
BotMessages ==
    { [subtype |-> FALSE, channel |-> "C1", text |-> <<"g", "o", " ">> \o URL_SURL_3],
      [subtype |-> FALSE, channel |-> "C1", text |-> <<"<">> \o URL_IMWEB_3 \o <<">">>],
      [subtype |-> FALSE, channel |-> "C1", text |-> URL_DETAIL_150 \o <<"\n", "o", "k">>],
      [subtype |-> FALSE, channel |-> "C1", text |-> URL_ABOUT],
      [subtype |-> FALSE, channel |-> "C1", text |-> URL_DETAIL_NOID],
      [subtype |-> FALSE, channel |-> "C1", text |-> <<"h", "e", "l", "l", "o">>],
      [subtype |-> TRUE, channel |-> "C1", text |-> URL_SURL_3],
      [subtype |-> FALSE, channel |-> "C2", text |-> URL_SURL_3] }

\* the thread started for a URL, after the acknowledgement was posted
NewThread(url) ==
    [pc |-> "spawned", url |-> url, template |-> <<>>, input_id |-> 0, domain |-> <<>>,
     existing |-> <<>>, result |-> NoResult, replies |-> <<ACK>>]

\* the end of handle_message_events for the result of extract_first_url
SpawnFor(url) == IF url = None THEN threads ELSE Append(threads, NewThread(url[1]))

\* handle_message_events(event): the threads after the handler returned
handle_message_events(event) ==
    IF event.subtype THEN threads
    ELSE IF TARGET_CHANNEL_ID # "" /\ event.channel # TARGET_CHANNEL_ID THEN threads
    ELSE SpawnFor(extract_first_url(event.text))

\* a message event arrives
BotReceive ==
    /\ workflow = "bot"
    /\ Len(threads) < MaxThreads
    /\ \E event \in BotMessages : threads' = handle_message_events(event)
    /\ UNCHANGED <<envVars, call, io_error, callerVars, paramVars, passVars>>

\* run_scan_and_reply up to the call of scan_for_slack, and scan_for_slack
\* up to the computation of the domain
Resolved(th, det, id, dom) ==
    IF det = NoPlatform
    THEN [th EXCEPT !.pc = "done", !.replies = Append(@, UnsupportedReply(th.url))]
    ELSE IF id = None
    THEN [th EXCEPT !.pc = "done", !.result = ValueError(NO_PRODUCT_ID),
                    !.replies = @ \o <<StartNotice(det), ErrorReply("ValueError")>>]
    ELSE [th EXCEPT !.pc = "started", !.template = det.template, !.input_id = id[1],
                    !.domain = dom, !.replies = Append(@, StartNotice(det))]

BotResolve ==
    /\ workflow = "bot"
    /\ \E t \in DOMAIN threads :
         /\ threads[t].pc = "spawned"
         /\ threads' = [threads EXCEPT ![t] =
                Resolved(@, detect_platform_from_product_url(@.url),
                         extract_product_id_from_input_url(@.url),
                         get_domain_from_url(@.url))]
    /\ UNCHANGED <<envVars, call, io_error, callerVars, paramVars, passVars>>

\* existing_products = load_existing_products(domain)
BotLoad ==
    /\ workflow = "bot"
    /\ \E t \in DOMAIN threads :
         /\ threads[t].pc = "started"
         /\ threads' = [threads EXCEPT ![t] =
                [@ EXCEPT !.pc = "loaded",
                          !.existing = load_existing_products(files[threads[t].domain])]]
    /\ UNCHANGED <<envVars, call, io_error, callerVars, paramVars, passVars>>

\* last_id = get_last_id_from_file(domain) and the head of the first pass;
\* the passes of the threads are taken one after the other
BotLastId ==
    /\ workflow = "bot"
    /\ pass_state = "idle"
    /\ \E t \in DOMAIN threads :
         /\ threads[t].pc = "loaded"
         /\ threads' = [threads EXCEPT ![t] = [@ EXCEPT !.pc = "scanning"]]
         /\ product_url' = threads[t].url
         /\ input_product_id' = threads[t].input_id
         /\ domain' = threads[t].domain
         /\ SlackResume(threads[t].template, threads[t].existing,
                        get_last_id_from_file(files[threads[t].domain]))
    /\ pass_no' = 1
    /\ pc' = "running"
    /\ sessions' = sessions + 1
    /\ result' = NoResult
    /\ UNCHANGED <<envVars, call, io_error, workflow>>

\* the first pass returned and the second-pass condition holds
BotSecondPass ==
    /\ ReturnedFrom("bot", 1)
    /\ SlackSecondPassNeeded(input_product_id, slack_start_id, Len(found_products))
    /\ EnterPass(template_url, input_product_id, STOP_AFTER_CONSECUTIVE_MISSES,
                 FALSE, found_products, found_urls)
    /\ pass_no' = 2
    /\ UNCHANGED <<auxVars, envVars, workflow, pc, product_url, input_product_id, domain,
                   existing_products, last_id, slack_start_id, sessions, result>>

\* the file name save_influencers_to_file returns: the name of the file, or
\* "" when writing it failed
InfluencerFileOutcomes(dom) ==
    {dom \o <<"_", "i", "n", "f", "l", "u", "e", "n", "c", "e", "r", "s", ".", "t", "x", "t">>,
     <<>>}

\* scan_for_slack returned results; run_scan_and_reply posts them
Finished(th, results) ==
    [th EXCEPT !.pc = "done",
               !.result = [kind |-> "ok", all_products |-> results[1],
                           found_products |-> results[2], influencer_file |-> results[3]],
               !.replies = Append(@, ResultReply(format_results(results)))]

\* the last pass returned: merge, save, return, reply
BotFinish ==
    /\ \/ ReturnedFrom("bot", 2)
       \/ /\ ReturnedFrom("bot", 1)
          /\ ~SlackSecondPassNeeded(input_product_id, slack_start_id, Len(found_products))
    /\ files' = [files EXCEPT ![domain] = save_products_to_file(existing_products \o found_products)]
    /\ saved' = [saved EXCEPT ![domain] = existing_products \o found_products]
    /\ \E t \in DOMAIN threads, file \in InfluencerFileOutcomes(domain) :
         /\ threads[t].pc = "scanning"
         /\ threads' = [threads EXCEPT ![t] =
                Finished(@, <<existing_products \o found_products, found_products, file>>)]
    /\ result' = [kind |-> "ok", all_products |-> existing_products \o found_products,
                  found_products |-> found_products]
    /\ pc' = "idle"
    /\ pass_state' = "idle"
    /\ UNCHANGED <<call, io_error, site, workflow, product_url, input_product_id, domain,
                   existing_products, last_id, slack_start_id, pass_no, sessions, paramVars,
                   product_id, consecutive_misses, consecutive_hits, extra_retry_used,
                   found_products, found_urls, fetch_count, last_fetched>>

\* scan_pass raised RuntimeError: the except clause of run_scan_and_reply
BotAnomaly ==
    /\ workflow = "bot" /\ pc = "running" /\ pass_state = "raised"
    /\ \E t \in DOMAIN threads :
         /\ threads[t].pc = "scanning"
         /\ threads' = [threads EXCEPT ![t] =
                [@ EXCEPT !.pc = "done", !.result = Raised("RuntimeError"),
                          !.replies = Append(@, ErrorReply("RuntimeError"))]]
    /\ result' = Raised("RuntimeError")
    /\ pc' = "idle"
    /\ pass_state' = "idle"
    /\ UNCHANGED <<call, io_error, envVars, workflow, product_url, input_product_id, domain,
                   existing_products, last_id, slack_start_id, pass_no, sessions, paramVars,
                   product_id, consecutive_misses, consecutive_hits, extra_retry_used,
                   found_products, found_urls, fetch_count, last_fetched>>

InitBot ==
    /\ site \in {"catalog", "catchall"}
    /\ files = [d \in Domains |-> NoFile]
    /\ saved = [d \in Domains |-> <<>>]
    /\ call = NoCall
    /\ io_error = NoIoError
    /\ threads = NoThreads
    /\ workflow = "bot"
    /\ pc = "idle"
    /\ product_url = <<>>
    /\ input_product_id = 0
    /\ domain = <<>>
    /\ existing_products = <<>>
    /\ last_id = 0
    /\ slack_start_id = 0
    /\ pass_no = 0
    /\ sessions = 0
    /\ result = NoResult
    /\ template_url = <<>>
    /\ start_id = 0
    /\ stop_after_consecutive_misses = 0
    /\ allow_extra_retry_if_zero_found = FALSE
    /\ product_id = 0
    /\ consecutive_misses = 0
    /\ consecutive_hits = 0
    /\ extra_retry_used = FALSE
    /\ found_products = <<>>
    /\ found_urls = {}
    /\ pass_state = "idle"
    /\ fetch_count = 0
    /\ last_fetched = 0

NextBot ==
    \/ BotReceive
    \/ BotResolve
    \/ BotLoad
    \/ BotLastId
    \/ FetchExists
    \/ FetchMissing
    \/ FetchError
    \/ BotSecondPass
    \/ BotFinish
    \/ BotAnomaly

SpecBot == InitBot /\ [][NextBot]_vars

\* ------------------------------------------------------------------------
\* Specification of the pure functions called on their own
\* ------------------------------------------------------------------------
X_BASE == <<"h", "t", "t", "p", "s", ":", "/", "/", "x", ".", "t", "e", "s", "t">>

X_TPL_42 == X_BASE \o <<"/", "t", "p", "l", "/", "4", "2">>

\* requested_url arguments
OracleRequested == {X_TPL_42, X_BASE \o <<"/">>, X_BASE \o <<"/", "I", "n", "d", "e", "x", ".", "p", "h", "p">>}

\* final_url arguments: home-like, the requested URL in another spelling,
\* another page
OracleFinals ==
    { X_BASE,
      X_BASE \o <<"/">>,
      X_BASE \o <<"/", "i", "n", "d", "e", "x", ".", "h", "t", "m", "l">>,
      X_BASE \o <<"/", "I", "N", "D", "E", "X", ".", "p", "h", "p", "?", "a", "=", "1">>,
      X_BASE \o <<"/", "m", "a", "i", "n", "/">>,
      X_TPL_42,
      <<"H", "T", "T", "P", "S", ":", "/", "/", "X", ".", "T", "E", "S", "T">>
          \o <<"/", "t", "p", "l", "/", "4", "2", "/", "?", "a", "=", "1", "#", "f">>,
      X_BASE \o <<"/", "e", "v", "e", "n", "t">> }

\* html arguments: the leading whitespace ends before, near or at the end of
\* the sample; the markup is shorter or longer than the minimum
OracleBodies ==
    {[lead |-> l, text |-> t, kw |-> k, og |-> NoTag, tw |-> NoTag, title |-> NoTag] :
        l \in {0, SAMPLE_LEN - 100, SAMPLE_LEN - 2, SAMPLE_LEN},
        t \in {0, MIN_BODY_LEN - 1, MIN_BODY_LEN, MIN_BODY_LEN + 50},
        k \in BOOLEAN}

\* status_code arguments
OracleStatuses == {200, 404}

\* the calls of looks_not_found that can be made
OracleCalls ==
    {[fn |-> "looks_not_found", done |-> FALSE, status |-> status, requested |-> req,
      final |-> fin, html |-> html, ret |-> FALSE] :
        status \in OracleStatuses, req \in OracleRequested, fin \in OracleFinals,
        html \in OracleBodies}

\* looks_not_found(status_code, requested_url, final_url, html)
OracleCall ==
    /\ workflow = "fn"
    /\ call.fn = "looks_not_found"
    /\ ~call.done
    /\ call' = [call EXCEPT !.done = TRUE,
                            !.ret = looks_not_found(call.status, call.requested,
                                                    call.final, call.html)]
    /\ UNCHANGED <<envVars, io_error, threads, callerVars, paramVars, passVars>>

\* html arguments with every combination of the three title sources
NameBodies ==
    {[lead |-> 0, text |-> MIN_BODY_LEN + 50, kw |-> FALSE, og |-> o, tw |-> t, title |-> ti] :
        o \in {NoTag, Tag(<<"o", "g">>)},
        t \in {NoTag, Tag(<<"t", "w">>)},
        ti \in {NoTag, Tag(<<>>), Tag(<<" ", "a", " ", " ", "3", "\n">>)}}

\* the calls of extract_product_name that can be made
NameCalls ==
    {[fn |-> "extract_product_name", done |-> FALSE, html |-> html, ret |-> <<>>] :
        html \in NameBodies}

\* extract_product_name(html)
NameCall ==
    /\ workflow = "fn"
    /\ call.fn = "extract_product_name"
    /\ ~call.done
    /\ call' = [call EXCEPT !.done = TRUE, !.ret = extract_product_name(call.html)]
    /\ UNCHANGED <<envVars, io_error, threads, callerVars, paramVars, passVars>>

\* product_url arguments: the input URLs of the workflows, one without a
\* scheme, one in capitals with a query and a fragment
ResolverInputs ==
    SlackInputs \cup MainInputs
    \cup { <<"s", ".", "t">> \o SURL_P \o <<"3">>,
           <<"H", "T", "T", "P", "S", ":", "/", "/", "S", ".", "T">> \o SURL_P
               \o <<"3", "?", "u", "t", "m", "=", "1", "#", "x">> }

\* detect_platform_from_product_url(template.format(id=id)) for the template
\* of a resolution
ResolveAgain(det, id) ==
    IF det = NoPlatform THEN NoPlatform
    ELSE detect_platform_from_product_url(FormatId(det.template, id))

\* the calls of detect_platform_from_product_url that can be made, each
\* with the id to substitute into the template it returns
ResolveCalls ==
    {[fn |-> "detect_platform_from_product_url", done |-> FALSE, url |-> u, id |-> id,
      ret |-> NoPlatform, again |-> NoPlatform] :
        u \in ResolverInputs, id \in 1..MaxSubstId}

\* detect_platform_from_product_url(product_url), then again on its template
ResolveCall ==
    /\ workflow = "fn"
    /\ call.fn = "detect_platform_from_product_url"
    /\ ~call.done
    /\ call' = [call EXCEPT
                   !.done = TRUE,
                   !.ret = detect_platform_from_product_url(call.url),
                   !.again = ResolveAgain(detect_platform_from_product_url(call.url), call.id)]
    /\ UNCHANGED <<envVars, io_error, threads, callerVars, paramVars, passVars>>

InitFn ==
    /\ site = "catalog"
    /\ files = [d \in Domains |-> NoFile]
    /\ saved = [d \in Domains |-> <<>>]
    /\ call \in OracleCalls \cup NameCalls \cup ResolveCalls
    /\ io_error = NoIoError
    /\ threads = NoThreads
    /\ workflow = "fn"
    /\ pc = "idle"
    /\ product_url = <<>>
    /\ input_product_id = 0
    /\ domain = <<>>
    /\ existing_products = <<>>
    /\ last_id = 0
    /\ slack_start_id = 0
    /\ pass_no = 0
    /\ sessions = 0
    /\ result = NoResult
    /\ template_url = <<>>
    /\ start_id = 0
    /\ stop_after_consecutive_misses = 0
    /\ allow_extra_retry_if_zero_found = FALSE
    /\ product_id = 0
    /\ consecutive_misses = 0
    /\ consecutive_hits = 0
    /\ extra_retry_used = FALSE
    /\ found_products = <<>>
    /\ found_urls = {}
    /\ pass_state = "idle"
    /\ fetch_count = 0
    /\ last_fetched = 0

NextFn == OracleCall \/ NameCall \/ ResolveCall

SpecFn == InitFn /\ [][NextFn]_vars

\* ------------------------------------------------------------------------
\* Properties of one pass (SpecPass)
\* ------------------------------------------------------------------------
\* a step that is one fetch of the pass
IsFetch == fetch_count' = fetch_count + 1

\* a fetch whose outcome is Missing or a transport failure
IsMissFetch == IsFetch /\ consecutive_hits' = 0

\* a miss that makes the streak reach the threshold
IsStopTrigger == IsMissFetch /\ consecutive_misses + 1 = stop_after_consecutive_misses

\* C1: the pass aborts with the anomaly error exactly when the streak of
\* consecutive Exists outcomes reaches 200: the abort happens on the fetch
\* that takes the streak from 199 to 200, a pass that is still scanning or
\* has returned has a streak of at most 199, and after the abort the pass
\* makes no further fetch and never returns.
C1_AnomalyState ==
    /\ consecutive_hits <= 200
    /\ (pass_state = "raised") <=> (consecutive_hits = 200)

C1_AnomalyStep ==
    /\ (pass_state # "raised" /\ pass_state' = "raised")
          => (IsFetch /\ consecutive_hits = 199 /\ consecutive_hits' = 200)
    /\ pass_state = "raised" => UNCHANGED passVars

C1_AnomalyAtExactly200 == [](C1_AnomalyState) /\ [][C1_AnomalyStep]_vars

C1_Witness == pass_state = "raised" /\ consecutive_hits = 200 /\ fetch_count > 200

\* C2: a pass returns only on the miss that makes the streak reach the
\* threshold T.  Without the retry extension that miss always ends the pass;
\* with it, and with no product recorded and the extension unused, the
\* streak is reset to 0, the extension is consumed and the scan goes on; the
\* extension is granted only there, hence at most once and never with a
\* product recorded.  A pass in which nothing exists makes T fetches without
\* the extension and 2T with it.
C2_StopStep ==
    /\ (pass_state # "returned" /\ pass_state' = "returned") => IsStopTrigger
    /\ (IsStopTrigger /\ ~allow_extra_retry_if_zero_found) => pass_state' = "returned"
    /\ (IsStopTrigger /\ (found_products # <<>> \/ extra_retry_used))
          => pass_state' = "returned"
    /\ (IsStopTrigger /\ allow_extra_retry_if_zero_found /\ found_products = <<>>
           /\ ~extra_retry_used)
          => (pass_state' = "scanning" /\ consecutive_misses' = 0 /\ extra_retry_used')
    /\ (extra_retry_used' # extra_retry_used)
          => (IsStopTrigger /\ allow_extra_retry_if_zero_found /\ found_products = <<>>
                /\ ~extra_retry_used /\ extra_retry_used')
    /\ pass_state = "returned" => UNCHANGED passVars

C2_StopState ==
    /\ pass_state = "returned" => consecutive_misses = stop_after_consecutive_misses
    /\ (pass_state = "returned" /\ found_urls = {})
          => fetch_count = IF allow_extra_retry_if_zero_found
                           THEN 2 * stop_after_consecutive_misses
                           ELSE stop_after_consecutive_misses
    /\ extra_retry_used => allow_extra_retry_if_zero_found

C2_StopAndRetryOnce == [](C2_StopState) /\ [][C2_StopStep]_vars

C2_Witness ==
    /\ pass_state = "returned"
    /\ extra_retry_used
    /\ stop_after_consecutive_misses = 100
    /\ found_products # <<>>
    /\ fetch_count > 200

\* C3: the n-th fetch of a pass requests id start_id + n - 1, whatever the
\* outcomes before it: the cursor is start_id plus the number of fetches made
\* while the pass is scanning, so no id is skipped, repeated or retried.
C3_CursorState ==
    /\ pass_state = "scanning" => product_id = start_id + fetch_count
    /\ fetch_count > 0 => last_fetched = start_id + fetch_count - 1

C3_CursorStep ==
    \/ IsFetch /\ last_fetched' = start_id + fetch_count /\ start_id' = start_id
    \/ UNCHANGED <<fetch_count, last_fetched, product_id>>

C3_OneFetchPerIdAscending == [](C3_CursorState) /\ [][C3_CursorStep]_vars

C3_Witness ==
    /\ start_id = MaxLiveId
    /\ fetch_count = 200
    /\ last_fetched = MaxLiveId + 199
    /\ consecutive_misses > 0
    /\ extra_retry_used

\* ------------------------------------------------------------------------
\* Properties of the store (SpecStore)
\* ------------------------------------------------------------------------
\* C4: saving a list of records and loading it back gives the same records,
\* names and URLs, in the same order, whatever names the records carry
\* (empty names and the extraction-failed marker included).
C4_RoundTrip ==
    (workflow = "store" /\ pc \in {"loaded", "measured"})
        => existing_products = saved[domain]

\* the identifier the pattern /(\d+)(?:[/?#]|$) finds in the URL of the last
\* record that has one, 0 when no record has one
RECURSIVE LastListedId(_)
LastListedId(products) ==
    IF products = <<>> THEN 0
    ELSE IF SearchTrailingId(products[Len(products)].url) # <<>>
         THEN StrToInt(SearchTrailingId(products[Len(products)].url))
         ELSE LastListedId(SubSeq(products, 1, Len(products) - 1))

\* the identifiers that pattern finds in the URLs of the records
ListedIds(products) ==
    {StrToInt(SearchTrailingId(products[i].url)) :
        i \in {k \in 1..Len(products) : SearchTrailingId(products[k].url) # <<>>}}

StoredIds(products) ==
    {extract_product_id_from_input_url(products[i].url)[1] :
        i \in {k \in 1..Len(products) :
                 extract_product_id_from_input_url(products[k].url) # None}}

\* the first pass of a session is about to make its first fetch
AtFirstFetch ==
    workflow = "slack" /\ pc = "running" /\ pass_no = 1 /\ fetch_count = 0

\* C6: the first pass of a session starts at 1 when nothing is stored for the
\* domain and otherwise right after the highest identifier among the stored
\* products, so no identifier of a stored product is fetched again.
C6_ResumeAfterHighest ==
    AtFirstFetch =>
        /\ start_id = slack_start_id
        /\ product_id = slack_start_id
        /\ slack_start_id = IF StoredIds(saved[domain]) = {} THEN 1
                            ELSE Greatest(StoredIds(saved[domain])) + 1

\* no two records of the list have the same URL
DistinctUrls(products) ==
    \A i, j \in 1..Len(products) : i # j => products[i].url # products[j].url

\* C7: in every session the newly discovered list has no URL of the loaded
\* records and no URL twice, in the first pass and in the supplementary pass
\* alike, and the list persisted for a domain never has two records with the
\* same URL.
C7_NoDuplicateUrl ==
    /\ \A d \in Domains : DistinctUrls(saved[d])
    /\ workflow = "slack" => DistinctUrls(existing_products \o found_products)
    /\ result.kind = "ok" =>
          /\ DistinctUrls(result.all_products)
          /\ \A i \in 1..Len(result.found_products) :
                \A j \in 1..Len(existing_products) :
                    result.found_products[i].url # existing_products[j].url

\* in a second session, the supplementary pass hits a URL of the loaded
\* records and records nothing
C7_Witness ==
    /\ workflow = "slack" /\ pc = "running"
    /\ sessions = 2
    /\ pass_no = 2
    /\ existing_products # <<>>
    /\ consecutive_hits = 1
    /\ found_products = <<>>

\* C9: when the first pass of a session returns, the supplementary pass is
\* run exactly when the extracted identifier is above the resume start id and
\* the products newly found are fewer than 1% of it; it starts at the
\* extracted identifier; otherwise the session ends without one.
C9_Step ==
    (workflow = "slack" /\ pc = "running" /\ pass_no = 1 /\ pass_state = "returned")
        => IF input_product_id > slack_start_id
              /\ Len(found_products) * 100 < input_product_id
           THEN /\ pass_no' = 2
                /\ pass_state' = "scanning"
                /\ start_id' = input_product_id
                /\ product_id' = input_product_id
           ELSE /\ pass_no' = 1
                /\ pc' = "idle"
                /\ result'.kind = "ok"

C9_State ==
    (workflow = "slack" /\ pass_no = 2)
        => input_product_id > slack_start_id /\ start_id = input_product_id

C9_SupplementaryPassRule == [](C9_State) /\ [][C9_Step]_vars

\* a session whose extracted identifier is not above its start id ends after
\* one pass that found nothing
C9_Witness ==
    /\ workflow = "slack" /\ pc = "idle"
    /\ result.kind = "ok"
    /\ pass_no = 1
    /\ input_product_id <= slack_start_id
    /\ result.found_products = <<>>

\* list a is a prefix of list b
IsPrefix(a, b) == Len(a) <= Len(b) /\ SubSeq(b, 1, Len(a)) = a

\* C10: the list stored for a domain before a session is a prefix of the
\* list stored after it.
C10_AppendOnly == [][\A d \in Domains : IsPrefix(saved[d], saved'[d])]_vars

\* C22: when a pass of a session ends with the anomaly abort, the next step
\* of the session hands RuntimeError to the caller with no records and
\* leaves the store as it is; the store is not written when a session
\* starts nor while it runs, so after the abort it is as it was before the
\* session.
C22_AbortStep ==
    /\ (workflow = "slack" /\ pc = "running" /\ pass_state = "raised") =>
          /\ pc' = "idle"
          /\ result' = Raised("RuntimeError")
          /\ files' = files
          /\ saved' = saved
    /\ (workflow = "slack" /\ pc' = "running") => files' = files
    /\ (workflow = "slack" /\ result'.kind = "RuntimeError" /\ result.kind # "RuntimeError") =>
          /\ pc = "running" /\ pass_state = "raised"
          /\ files' = files

C22_AbortState ==
    result.kind = "RuntimeError" =>
        /\ result.all_products = <<>>
        /\ result.found_products = <<>>

C22_AbortSavesNothing == [](C22_AbortState) /\ [][C22_AbortStep]_vars

\* the second pass of a second session aborted: the store still holds the
\* record the first session saved, and the record found before the streak
\* is neither stored nor returned
C22_Witness ==
    /\ workflow = "slack" /\ pc = "idle"
    /\ result = Raised("RuntimeError")
    /\ sessions = 2
    /\ pass_no = 2
    /\ consecutive_hits = 200
    /\ files[domain] # NoFile
    /\ files[domain] = save_products_to_file(existing_products)
    /\ found_products # <<>>

\* the second pass of a first session aborted after the first pass had found
\* a product: nothing is stored
C22_WitnessFirstSession ==
    /\ workflow = "slack" /\ pc = "idle"
    /\ result = Raised("RuntimeError")
    /\ sessions = 1
    /\ pass_no = 2
    /\ Len(found_products) = 2
    /\ files[domain] = NoFile

\* ------------------------------------------------------------------------
\* Properties of main (SpecMain)
\* ------------------------------------------------------------------------
\* C8: main starts its first pass at id 1 with the retry extension enabled
\* and nothing seen; when that pass returns, a second pass is run exactly
\* when the products found are fewer than 1% of the extracted identifier
\* (100 * found < id); the second pass starts at the extracted identifier
\* with the retry extension disabled and continues the product list and the
\* seen-URL set of the first.
C8_State ==
    (workflow = "main" /\ pc = "running") =>
        /\ pass_no = 1 => (start_id = 1 /\ allow_extra_retry_if_zero_found)
        /\ pass_no = 2 => (start_id = input_product_id /\ ~allow_extra_retry_if_zero_found)

C8_Step ==
    /\ (workflow = "main" /\ pc = "idle" /\ pc' = "running")
          => /\ pass_no' = 1
             /\ product_id' = 1
             /\ found_products' = <<>>
             /\ found_urls' = {}
    /\ (workflow = "main" /\ pc = "running" /\ pass_no = 1 /\ pass_state = "returned")
          => IF Len(found_products) * 100 < input_product_id
             THEN /\ pass_no' = 2
                  /\ pass_state' = "scanning"
                  /\ product_id' = input_product_id
                  /\ found_products' = found_products
                  /\ found_urls' = found_urls
             ELSE /\ pass_no' = 1
                  /\ pc' = "idle"
                  /\ result'.kind = "ok"
    /\ (workflow = "main" /\ pass_no # 2 /\ pass_no' = 2)
          => (pass_no = 1 /\ pass_state = "returned")

C8_SecondPassRule == [](C8_State) /\ [][C8_Step]_vars

\* extracted id 72, nothing found by the first pass: the second pass is at
\* its first fetch, at id 72
C8_Witness ==
    /\ workflow = "main" /\ pc = "running"
    /\ input_product_id = 72
    /\ pass_no = 2
    /\ pass_state = "scanning"
    /\ product_id = 72
    /\ found_products = <<>>
    /\ fetch_count = 0
    /\ ~allow_extra_retry_if_zero_found

\* a session starts on this step
SessionStarts == pc = "idle" /\ sessions' = sessions + 1

\* the case of each input URL: no platform, no identifier, or neither
InputCase ==
    [u \in SlackInputs \cup MainInputs |->
        IF detect_platform_from_product_url(u) = NoPlatform THEN "unsupported"
        ELSE IF extract_product_id_from_input_url(u) = None THEN "no id"
        ELSE "supported"]

\* the failure each workflow reports for a case
FailureOf(w, case) ==
    IF w = "slack"
    THEN ValueError(IF case = "unsupported" THEN UNSUPPORTED_PATTERN ELSE NO_PRODUCT_ID)
    ELSE Raised(case)

\* C14: a session whose input URL resolves to no platform, or to a platform
\* but no identifier, ends on the step that starts it with the failure of
\* that case: it leaves the store, the prior records, the resume point and
\* every local of a pass as they were (nothing is read, written or fetched
\* and no pass is entered); only a session with a supported input runs, and
\* it keeps its input while it runs.
C14_FailStep ==
    /\ SessionStarts =>
          /\ InputCase[product_url'] # "supported"
                => result' = FailureOf(workflow, InputCase[product_url'])
          /\ pc' = "running" => InputCase[product_url'] = "supported"
          /\ result'.kind \in {"ValueError", "unsupported", "no id"} =>
                /\ pc' = "idle"
                /\ UNCHANGED <<envVars, existing_products, last_id, slack_start_id,
                               pass_no, input_product_id, domain, paramVars, passVars>>
    /\ pc = "running" => product_url' = product_url
    /\ pc' = "running" => (pc = "running" \/ SessionStarts)

C14_FailsBeforeAnyEffect == [][C14_FailStep]_vars

\* a URL without identifier given after a session that stored products
C14_Witness ==
    /\ result = ValueError(NO_PRODUCT_ID)
    /\ product_url = URL_DETAIL_NOID
    /\ pc = "idle"
    /\ sessions = 2
    /\ files[get_domain_from_url(URL_DETAIL_NOID)] # NoFile

\* C18: an attempt with an Exists outcome leaves consecutive_misses = 0 and
\* consecutive_hits one higher; an attempt with a Missing outcome or a
\* transport failure leaves consecutive_hits = 0 and counts one more miss
\* (the count the stop check of the same iteration sees: it stays in
\* consecutive_misses unless that check grants the one extra retry, which
\* sets it back to 0); the two counters are never both positive, and at the
\* start of every fetch consecutive_hits < 200 and consecutive_misses < the
\* miss threshold.
C18_StreakState ==
    /\ ~(consecutive_hits > 0 /\ consecutive_misses > 0)
    /\ pass_state = "scanning" =>
          /\ consecutive_hits < 200
          /\ consecutive_misses < stop_after_consecutive_misses

\* the branch of an Exists outcome
C18_HitBranch ==
    /\ consecutive_misses' = 0
    /\ consecutive_hits' = consecutive_hits + 1

\* the branch of a Missing outcome or a transport failure
C18_MissBranch ==
    /\ consecutive_hits' = 0
    /\ \/ consecutive_misses' = consecutive_misses + 1
       \/ /\ consecutive_misses + 1 = stop_after_consecutive_misses
          /\ ~extra_retry_used /\ extra_retry_used'
          /\ consecutive_misses' = 0

C18_StreakStep ==
    IsFetch =>
        /\ C18_HitBranch \/ C18_MissBranch
        /\ ExistsOutcomes[site, template_url, product_id] = {} => C18_MissBranch
        /\ Len(found_products') > Len(found_products) => C18_HitBranch

C18_StreakCounters == [](C18_StreakState) /\ [][C18_StreakStep]_vars

\* 99 misses in a row after a product was found, one short of the threshold
C18_Witness ==
    /\ pass_state = "scanning"
    /\ stop_after_consecutive_misses = 100
    /\ consecutive_misses = 99
    /\ consecutive_hits = 0
    /\ found_products # <<>>

\* ------------------------------------------------------------------------
\* Properties of the sessions under storage I/O errors (SpecFaults)
\* ------------------------------------------------------------------------
\* what scan_for_slack returns when the save of this session succeeds
SuccessResult ==
    [kind |-> "ok", all_products |-> existing_products \o found_products,
     found_products |-> found_products]

\* the session that just ended could not save
SaveFailed == pc = "idle" /\ io_error.session = sessions /\ "save" \in io_error.failed

\* C11: when the save of the merged list fails, what scan_for_slack hands to
\* its caller still carries the merged and the new records, and it differs
\* from what it hands over when the save succeeds, so the caller can tell.
C11_SaveFailureSurfaced ==
    SaveFailed =>
        /\ result.all_products = existing_products \o found_products
        /\ result.found_products = found_products
        /\ result # SuccessResult

\* C12: a session that had a read of the store fail still runs, with an
\* empty prior list and the first pass starting at 1.
C12_ReadFailureIsEmptyStore ==
    (AtFirstFetch /\ io_error.session = sessions /\ io_error.failed # {})
        => /\ existing_products = <<>>
           /\ slack_start_id = 1
           /\ product_id = 1

\* ------------------------------------------------------------------------
\* Properties of the chat bot (SpecBot)
\* ------------------------------------------------------------------------
\* the thread is inside scan_for_slack, between the reading of the store
\* and the save
InSession(th) == th.pc \in {"started", "loaded", "scanning"}

\* the records of a list
Records(products) == {products[k] : k \in 1..Len(products)}

\* C13: no two threads are inside a session for the same domain at the same
\* time, and the records a finished session saved are still in the list
\* last saved for its domain.
C13_OneSessionPerDomain ==
    /\ \A i, j \in DOMAIN threads :
          (i # j /\ InSession(threads[i]) /\ InSession(threads[j]))
              => threads[i].domain # threads[j].domain
    /\ \A i \in DOMAIN threads :
          (threads[i].pc = "done" /\ threads[i].result.kind = "ok")
              => Records(threads[i].result.all_products) \subseteq Records(saved[threads[i].domain])

\* the listing of a merged list: one numbered entry per product
Listing(products) ==
    [kind |-> "result",
     entries |-> [k \in 1..Len(products) |-> [name |-> products[k].name, url |-> products[k].url]]]

\* C20: a thread whose session completed has exactly three posts, the
\* acknowledgement, the scan-start notice and the listing of the merged list
\* its session returned, in this order.
C20_FinalReplyIsListing ==
    \A t \in DOMAIN threads :
        (threads[t].pc = "done" /\ threads[t].result.kind = "ok")
            => /\ Len(threads[t].replies) = 3
               /\ threads[t].replies[1] = ACK
               /\ threads[t].replies[2].kind = "start"
               /\ threads[t].replies[3] = Listing(threads[t].result.all_products)

\* ------------------------------------------------------------------------
\* Termination of a pass (SpecTerm)
\* ------------------------------------------------------------------------
\* C21: a pass over a storefront where only finitely many ids exist
\* eventually ends, by returning (with the extension used at most once) or by
\* the anomaly abort; a pass over a storefront where every id exists never
\* returns and ends with the anomaly abort after exactly 200 fetches.
C21_PassTerminates ==
    /\ <>(pass_state \in {"returned", "raised"})
    /\ [](site = "catchall" =>
             /\ pass_state # "returned"
             /\ pass_state = "raised" => fetch_count = 200)

\* a pass that found nothing ended after its extension
C21_Witness ==
    /\ site = "catalog"
    /\ pass_state = "returned"
    /\ extra_retry_used
    /\ stop_after_consecutive_misses = 100
    /\ fetch_count = 200

\* a pass on which every id exists ended with the abort
C21_WitnessAnomaly ==
    /\ site = "catchall"
    /\ pass_state = "raised"
    /\ fetch_count = 200

\* ------------------------------------------------------------------------
\* Properties of the pure functions (SpecFn)
\* ------------------------------------------------------------------------
\* final URLs whose path is empty, "/" or one of the fixed index paths
HomeLikeFinals ==
    { X_BASE,
      X_BASE \o <<"/">>,
      X_BASE \o <<"/", "i", "n", "d", "e", "x", ".", "h", "t", "m", "l">>,
      X_BASE \o <<"/", "m", "a", "i", "n", "/">> }

\* C15: with status 200 and any body, looks_not_found answers Missing when
\* the requested and the final URL differ after normalisation and the path
\* of the final URL is home-like; so for https://x.test/tpl/42 answered from
\* https://x.test/ (or another home-like URL) with every body.
C15_RedirectToHomeIsMissing ==
    (call.fn = "looks_not_found" /\ call.done /\ call.status = 200) =>
        /\ (call.requested = X_TPL_42 /\ call.final \in HomeLikeFinals) => call.ret
        /\ (/\ normalize_for_compare(call.requested) # normalize_for_compare(call.final)
            /\ Strip(urlparse(ensure_scheme(call.final)).path)
                   \in {<<>>, <<"/">>} \cup home_like_paths)
              => call.ret

\* https://x.test/tpl/42 answered from https://x.test with a long body that
\* has no not-found phrase
C15_Witness ==
    /\ call.fn = "looks_not_found" /\ call.done
    /\ call.status = 200
    /\ call.requested = X_TPL_42
    /\ call.final = X_BASE
    /\ call.html.lead = 0 /\ call.html.text > MIN_BODY_LEN /\ ~call.html.kw
    /\ call.ret

\* C16 (as claimed): the name is taken from the first present of the
\* og:title tag, the twitter:title tag and the <title> element, and is the
\* extraction-failed marker only when none is present.
C16_FirstOfThreeSources ==
    call.fn = "extract_product_name" /\ call.done =>
        call.ret = IF call.html.og # NoTag THEN clean_text(call.html.og[1])
                   ELSE IF call.html.tw # NoTag THEN clean_text(call.html.tw[1])
                   ELSE IF call.html.title # NoTag THEN clean_text(call.html.title[1])
                   ELSE EXTRACTION_FAILED

\* C16 (amended): the name is the content of the <title> element with its
\* whitespace collapsed and trimmed (possibly empty) when the element is
\* present, whatever og:title and twitter:title tags the body has, and the
\* extraction-failed marker otherwise.
C16_TitleOnly ==
    call.fn = "extract_product_name" /\ call.done =>
        /\ call.html.title = NoTag => call.ret = EXTRACTION_FAILED
        /\ call.html.title = Tag(<<>>) => call.ret = <<>>
        /\ call.html.title = Tag(<<" ", "a", " ", " ", "3", "\n">>)
              => call.ret = <<"a", " ", "3">>

\* a body with og:title and twitter:title tags and no <title> element
C16_Witness ==
    /\ call.fn = "extract_product_name" /\ call.done
    /\ call.html.og # NoTag /\ call.html.tw # NoTag /\ call.html.title = NoTag
    /\ call.ret = EXTRACTION_FAILED

\* C17: when an input URL resolves to a platform and a template, the
\* template with any id substituted resolves to the same platform and template.
C17_ResolverIdempotent ==
    (call.fn = "detect_platform_from_product_url" /\ call.done /\ call.ret # NoPlatform)
        => call.again = call.ret

\* an Imweb input resolved again with a two-digit id
C17_Witness ==
    /\ call.fn = "detect_platform_from_product_url" /\ call.done
    /\ call.ret.platform = "imweb"
    /\ call.id = MaxSubstId
    /\ call.again = call.ret

\* C19 (as claimed): with status 200, no redirect and no not-found phrase in
\* the first 20000 characters, looks_not_found answers Missing exactly when
\* the stripped length of the whole body is under 200.
C19_WholeBodyLength ==
    (/\ call.fn = "looks_not_found" /\ call.done /\ call.status = 200
     /\ call.requested = call.final
     /\ ~(call.html.kw /\ call.html.lead + 3 <= 20000))
        => (call.ret <=> call.html.text < 200)

====
